---------------------------- MODULE Spec2Model ----------------------------
(***************************************************************************)
(* Discovery & Matching Pipeline of scholarstream-v3 (backend/app).        *)
(*                                                                         *)
(* The module holds three state machines over disjoint variables:          *)
(*   - the deduplicator and the aggregator (scraper_service.py),           *)
(*   - the enrichment rate limiter (ai_service.py),                        *)
(*   - the discovery orchestrator and the job records                      *)
(*     (matching_service.py, routes/scholarships.py, database.py).         *)
(* Each has its own specification; the variables of the other machines     *)
(* stay at their initial values.                                           *)
(***************************************************************************)
EXTENDS Integers, Sequences, FiniteSets, TLC

VARIABLES
    \* ---- deduplicator (pure function, applied to a drawn input) ----
    opportunities,   \* the list handed to _deduplicate
    unique,          \* its result
    uniqueAgain,     \* _deduplicate applied to its own result
    dedupPc,         \* "idle" | "input" | "once" | "twice"
    \* ---- aggregator: discover_all_opportunities ----
    scraperOut,      \* what each adapter's scrape() yields in this world
    results,         \* asyncio.gather's result slots, Pending until filled
    finishOrder,     \* the adapters in the order their tasks finished
    aggPc,           \* "gathering" | "done"
    aggUnique,       \* the list discover_all_opportunities returned
    prevUnique,      \* the list the previous run returned (runNo > 1)
    runNo,           \* the number of the current run
    \* ---- enrichment: cache and rate limiter (GeminiAIService) ----
    now,             \* the clock, in ticks
    redisConfigured, \* self.redis_client is not None
    redisCounter,    \* the shared key "gemini_api_calls": value and expiry
    redisCache,      \* the shared keys "ai_enrichment:<key>"
    rate_limiter,    \* per process: the in-memory {'count', 'window_start'}
    memory_cache,    \* per process: self.memory_cache
    pc,              \* per process: where its enrich_scholarship call stands
    callKey,         \* per process: the cache key of the call in progress
    lastReturn,      \* the latest return of enrich_scholarship: process, value, cached entry
    admittedBy,      \* per process: checks that returned True in this window
    overlapped,      \* some call began while another process was in a call
    storeFailed,     \* some shared-store operation raised
    \* ---- orchestrator, job records and the persistent store ----
    scholarships,    \* the 'scholarships' collection, in stream order
    user_matches,    \* the 'user_matches' collection: user -> scholarship_ids
    discovery_jobs,  \* the 'discovery_jobs' collection: job id -> record
    nextId,          \* the next fresh uuid4 of a converted opportunity
    reqPc,           \* per request: where discover_scholarships stands
    reqUser,         \* per request: request.user_id
    reqCacheSize,    \* per request: len(cached_opportunities) as read
    reqMatched,      \* per request: the ranked list of the fast path
    response,        \* per request: the DiscoveryJobResponse returned
    scheduled,       \* per job id: how often add_task scheduled its run
    bgPc,            \* per job id: where run_background_discovery stands
    bgMatched,       \* per job id: matched_opportunities of the run
    bgSaved,         \* per job id: how many of them save_scholarship stored
    bgOutcome,       \* per job id: how the run ended
    \* ---- one call of BaseScraper._fetch_with_retry ----
    fetchPc,         \* "idle" | "running" | "returned"
    attempt,         \* the loop variable of "for attempt in range(max_retries)"
    fetchLog,        \* per attempt made: its outcome and the sleeps that followed it
    fetchResult,     \* "none" | "response" | "None"
    \* ---- one call of an adapter's scrape() ----
    scrapeAdapter,   \* the adapter whose scrape() runs
    scrapePage,      \* the page (fetch) scrape() has reached
    scrapeLog,       \* per page done: how its fetch and its parsing ended
    scrapeOpps,      \* the local list "opportunities"
    scrapeResult,    \* what scrape() yields: Pending, then a list or an exception
    \* ---- the adapters' HTTP clients under overlapping invocations ----
    client,          \* per adapter instance: self.client ("none" | "open")
    invPc,           \* per invocation of scrape(): where it stands
    accesses,        \* fields of adapter instances touched so far, by invocation
    \* ---- one background run: aggregation, then conversion and ranking ----
    runPc,           \* "idle" | "scraping" | "converting" | "ranked"
    runConverted,    \* the raw opportunities converted so far
    \* ---- the scoring functions applied to drawn inputs ----
    scoreOpp,        \* the drawn opportunity
    scoreProfile,    \* the drawn profile
    scorePc,         \* "idle" | "input" | "done"
    scoreOut,        \* the opportunity as the scoring engine scores it
    rankOut,         \* _filter_and_rank of a list holding it
    convOut,         \* the opportunity as the converter scores it
    \* ---- one call of batch_enrich_scholarships ----
    batchIn,         \* per scholarship of the batch: how its enrich call goes
    batchOut,        \* the list "results"
    batchPc,         \* "idle" | "running" | "sleeping" | "returned" | "raised"
    \* ---- the application routes on one application document ----
    application,     \* the document of the 'applications' collection
    appPc,           \* per request: where its handler stands
    appKind,         \* per request: "delete" | "save_draft" | "submit"
    appRemoved       \* the statuses of the documents delete() removed

varsDedup == <<opportunities, unique, uniqueAgain, dedupPc>>
varsAgg == <<scraperOut, results, finishOrder, aggPc, aggUnique, prevUnique, runNo>>
varsRate == <<now, redisConfigured, redisCounter, redisCache, rate_limiter, memory_cache,
              pc, callKey, lastReturn, admittedBy, overlapped, storeFailed>>
varsJob == <<scholarships, user_matches, discovery_jobs, nextId, reqPc, reqUser,
             reqCacheSize, reqMatched, response, scheduled, bgPc, bgMatched, bgSaved,
             bgOutcome>>
varsFetch == <<fetchPc, attempt, fetchLog, fetchResult>>
varsScrape == <<scrapeAdapter, scrapePage, scrapeLog, scrapeOpps, scrapeResult>>
varsClient == <<client, invPc, accesses>>
varsRun == <<runPc, runConverted>>
varsScore == <<scoreOpp, scoreProfile, scorePc, scoreOut, rankOut, convOut>>
varsBatch == <<batchIn, batchOut, batchPc>>
varsApp == <<application, appPc, appKind, appRemoved>>
\* the two machines that stand apart from all the others
varsLater == <<varsBatch, varsApp>>
vars == <<varsDedup, varsAgg, varsRate, varsJob, varsFetch, varsScrape, varsClient, varsRun,
          varsScore, varsLater>>
\* the variables outside the deduplicator and the aggregator
outsideAgg == <<varsRate, varsJob, varsFetch, varsScrape, varsClient, varsRun, varsScore, varsLater>>
\* the variables outside the enrichment service
outsideRate == <<varsDedup, varsAgg, varsJob, varsFetch, varsScrape, varsClient, varsRun,
                 varsScore, varsLater>>
\* the variables outside the orchestrator
outsideJob == <<varsDedup, varsAgg, varsRate, varsFetch, varsScrape, varsClient, varsRun,
                varsScore, varsLater>>
\* the variables outside the fetch helper
outsideFetch == <<varsDedup, varsAgg, varsRate, varsJob, varsScrape, varsClient, varsRun,
                  varsScore, varsLater>>
\* the variables outside an adapter's scrape()
outsideScrape == <<varsDedup, varsAgg, varsRate, varsJob, varsFetch, varsClient, varsRun,
                   varsScore, varsLater>>
\* the variables outside the adapters' clients
outsideClient == <<varsDedup, varsAgg, varsRate, varsJob, varsFetch, varsScrape, varsRun,
                   varsScore, varsLater>>
\* the variables outside the background run (the aggregator is part of it)
outsideRun == <<varsDedup, varsRate, varsJob, varsFetch, varsScrape, varsClient, varsScore, varsLater>>
\* the variables outside the scoring functions
outsideScore == <<varsDedup, varsAgg, varsRate, varsJob, varsFetch, varsScrape, varsClient,
                  varsRun, varsLater>>

\* a key that never expires
NoExpiry == -1
\* a key of the shared store that does not exist
Absent == [exists |-> FALSE, value |-> 0, expireAt |-> NoExpiry]

(***************************************************************************)
(* Each machine at rest, for the specifications of the other machines.     *)
(***************************************************************************)
DedupIdle ==
    /\ opportunities = <<>>
    /\ unique = <<>>
    /\ uniqueAgain = <<>>
    /\ dedupPc = "idle"

AggIdle ==
    /\ scraperOut = <<>>
    /\ results = <<>>
    /\ finishOrder = <<>>
    /\ aggPc = "idle"
    /\ aggUnique = <<>>
    /\ prevUnique = <<>>
    /\ runNo = 0

RateIdle ==
    /\ now = 0
    /\ redisConfigured = FALSE
    /\ redisCounter = Absent
    /\ redisCache = <<>>
    /\ rate_limiter = <<>>
    /\ memory_cache = <<>>
    /\ pc = <<>>
    /\ callKey = <<>>
    /\ lastReturn = <<>>
    /\ admittedBy = <<>>
    /\ overlapped = FALSE
    /\ storeFailed = FALSE

JobIdle ==
    /\ scholarships = <<>>
    /\ user_matches = <<>>
    /\ discovery_jobs = <<>>
    /\ nextId = 0
    /\ reqPc = <<>>
    /\ reqUser = <<>>
    /\ reqCacheSize = <<>>
    /\ reqMatched = <<>>
    /\ response = <<>>
    /\ scheduled = <<>>
    /\ bgPc = <<>>
    /\ bgMatched = <<>>
    /\ bgSaved = <<>>
    /\ bgOutcome = <<>>

FetchIdle ==
    /\ fetchPc = "idle"
    /\ attempt = 0
    /\ fetchLog = <<>>
    /\ fetchResult = "none"

ScrapeIdle ==
    /\ scrapeAdapter = "none"
    /\ scrapePage = 0
    /\ scrapeLog = <<>>
    /\ scrapeOpps = <<>>
    /\ scrapeResult = <<>>

ClientIdle ==
    /\ client = <<>>
    /\ invPc = <<>>
    /\ accesses = {}

RunIdle ==
    /\ runPc = "idle"
    /\ runConverted = <<>>

ScoreIdle ==
    /\ scoreOpp = <<>>
    /\ scoreProfile = <<>>
    /\ scorePc = "idle"
    /\ scoreOut = <<>>
    /\ rankOut = <<>>
    /\ convOut = <<>>

BatchIdle ==
    /\ batchIn = <<>>
    /\ batchOut = <<>>
    /\ batchPc = "idle"

AppIdle ==
    /\ application = <<>>
    /\ appPc = <<>>
    /\ appKind = <<>>
    /\ appRemoved = {}

LaterIdle == BatchIdle /\ AppIdle

\* the machines added to the first four, at rest
OthersIdle == FetchIdle /\ ScrapeIdle /\ ClientIdle /\ RunIdle /\ ScoreIdle /\ LaterIdle

\* every machine but the batch and the application routes, at rest
AllIdle ==
    /\ DedupIdle /\ AggIdle /\ RateIdle /\ JobIdle
    /\ FetchIdle /\ ScrapeIdle /\ ClientIdle /\ RunIdle /\ ScoreIdle

\* the variables outside the batch enrichment
outsideBatch == <<varsDedup, varsAgg, varsRate, varsJob, varsFetch, varsScrape, varsClient,
                  varsRun, varsScore, varsApp>>
\* the variables outside the application routes
outsideApp == <<varsDedup, varsAgg, varsRate, varsJob, varsFetch, varsScrape, varsClient,
                varsRun, varsScore, varsBatch>>

\* a task's result slot: not finished yet, an exception, or a returned list
Pending == [kind |-> "pending", items |-> <<>>]
Raised == [kind |-> "raised", items |-> <<>>]
Returned(list) == [kind |-> "list", items |-> list]

(***************************************************************************)
(* Bounds of the model.                                                    *)
(***************************************************************************)
\* longest list handed to _deduplicate in SpecAgg
MaxLen == 3
\* discovery runs over the same adapter outputs in SpecAgg
MaxRuns == 2

(***************************************************************************)
(* Strings are sequences of characters, so that lower() is a real          *)
(* conversion and the "_" of the key is a character like any other.        *)
(***************************************************************************)
\* str.lower() on one character
LowerChar(c) ==
    CASE c = "G" -> "g"
      [] c = "S" -> "s"
      [] c = "F" -> "f"
      [] c = "K" -> "k"
      [] c = "A" -> "a"
      [] c = "I" -> "i"
      [] c = "C" -> "c"
      [] c = "B" -> "b"
      [] c = "T" -> "t"
      [] c = "E" -> "e"
      [] c = "M" -> "m"
      [] OTHER -> c

\* str.lower()
Lower(s) == [i \in 1..Len(s) |-> LowerChar(s[i])]

\* f"{opp.get('name', '')}_{opp.get('organization', '')}" of the shadowed,
\* case-sensitive definition
DedupKeyCaseSensitive(opp) == opp.name \o <<"_">> \o opp.organization

\* f"{opp.get('name', '').lower()}_{opp.get('organization', '').lower()}"
DedupKey(opp) == Lower(opp.name) \o <<"_">> \o Lower(opp.organization)

\* the loop of _deduplicate: seen is the set of keys, unique the kept list
RECURSIVE DedupLoop(_, _, _, _)
DedupLoop(opps, i, seen, kept) ==
    IF i > Len(opps) THEN kept
    ELSE LET key == DedupKey(opps[i])
         IN IF key \notin seen
            THEN DedupLoop(opps, i + 1, seen \cup {key}, Append(kept, opps[i]))
            ELSE DedupLoop(opps, i + 1, seen, kept)

\* the shadowed definition's loop (scraper_service.py 101-112), used as a mutant
RECURSIVE DedupLoopCaseSensitive(_, _, _, _)
DedupLoopCaseSensitive(opps, i, seen, kept) ==
    IF i > Len(opps) THEN kept
    ELSE LET key == DedupKeyCaseSensitive(opps[i])
         IN IF key \notin seen
            THEN DedupLoopCaseSensitive(opps, i + 1, seen \cup {key}, Append(kept, opps[i]))
            ELSE DedupLoopCaseSensitive(opps, i + 1, seen, kept)

\* mutant: the first (shadowed) definition of _deduplicate is the effective one
DeduplicateShadowed(opps) == DedupLoopCaseSensitive(opps, 1, {}, <<>>)

\* mutant: a duplicate replaces the entry kept so far (last occurrence wins)
RECURSIVE DedupLastWinsLoop(_, _, _)
DedupLastWinsLoop(opps, i, kept) ==
    IF i > Len(opps) THEN kept
    ELSE LET key == DedupKey(opps[i])
             hit == {j \in 1..Len(kept) : DedupKey(kept[j]) = key}
         IN IF hit = {}
            THEN DedupLastWinsLoop(opps, i + 1, Append(kept, opps[i]))
            ELSE DedupLastWinsLoop(opps, i + 1,
                     [j \in 1..Len(kept) |-> IF j \in hit THEN opps[i] ELSE kept[j]])

DeduplicateLastWins(opps) == DedupLastWinsLoop(opps, 1, <<>>)

\* mutant: the unique list is returned sorted by key length, longest first
\* (a set-based dedup that loses the input order)
DeduplicateReversed(opps) ==
    LET u == DedupLoop(opps, 1, {}, <<>>)
    IN [i \in 1..Len(u) |-> u[Len(u) + 1 - i]]

\* OpportunityScraperService._deduplicate (the effective, second definition)
_deduplicate(opps) == DedupLoop(opps, 1, {}, <<>>)

(***************************************************************************)
(* The enrichment service: cache lookup, rate limiter, model call.         *)
(* enrich_scholarship has no await in its body, so calls of one process    *)
(* never interleave; processes sharing the store interleave between two    *)
(* store operations.                                                       *)
(***************************************************************************)
\* worker processes sharing the store
NumProcs == 2
Procs == 1..NumProcs
\* last tick of the clock
MaxTime == 3
\* ticks per hour
TicksPerHour == 2
\* settings.gemini_rate_limit_per_hour (default 1000), scaled down
MaxCallsPerHour == 2
\* settings.ai_enrichment_cache_ttl_hours (default 168), scaled down, in ticks
CacheTtl == 3
\* self.rate_limit_window = 3600, in ticks
RateLimitWindow == TicksPerHour
\* the cache keys md5(source_url + "_" + user_name) of the calls made
CacheKeys == {"k1"}

\* GeminiAIService.__init__ in every process, the store empty
InitRate ==
    /\ now = 0
    /\ redisConfigured \in BOOLEAN
    /\ redisCounter = Absent
    /\ redisCache = [k \in CacheKeys |-> Absent]
    /\ rate_limiter = [p \in Procs |-> [count |-> 0, window_start |-> 0]]
    /\ memory_cache = [p \in Procs |-> [k \in CacheKeys |-> Absent]]
    /\ pc = [p \in Procs |-> "idle"]
    /\ callKey = [p \in Procs |-> "k1"]
    /\ lastReturn = [proc |-> 0, value |-> "nothing", entry |-> "none"]
    /\ admittedBy = [p \in Procs |-> 0]
    /\ overlapped = FALSE
    /\ storeFailed = FALSE
    /\ DedupIdle
    /\ AggIdle
    /\ JobIdle
    /\ OthersIdle

\* no entry found
NoEntry == [hit |-> FALSE, value |-> "none"]

\* mutant: the in-memory cache read without the age check
_get_cached_enrichment_any_age(p, k, storeOk) ==
    IF redisConfigured /\ storeOk /\ redisCache[k].exists
    THEN [hit |-> TRUE, value |-> redisCache[k].value]
    ELSE IF memory_cache[p][k].exists
         THEN [hit |-> TRUE, value |-> memory_cache[p][k].value]
         ELSE NoEntry

\* _get_cached_enrichment: the shared store first (a failure is logged and
\* falls through), then the in-memory cache if younger than the TTL; the
\* in-memory record keeps the time it was stored at in expireAt
_get_cached_enrichment(p, k, storeOk) ==
    IF redisConfigured /\ storeOk /\ redisCache[k].exists
    THEN [hit |-> TRUE, value |-> redisCache[k].value]
    ELSE IF /\ memory_cache[p][k].exists
            /\ now - memory_cache[p][k].expireAt < CacheTtl
         THEN [hit |-> TRUE, value |-> memory_cache[p][k].value]
         ELSE NoEntry

\* if cached_enrichment: the lookup found an entry
CacheHit(p, k, storeOk) == _get_cached_enrichment(p, k, storeOk).hit

\* the in-memory window after the reset of lines 117-121
WindowAfterReset(p) ==
    IF now - rate_limiter[p].window_start > RateLimitWindow
    THEN [count |-> 0, window_start |-> now]
    ELSE rate_limiter[p]

\* the admission counts after p's in-memory window was reset: the window of
\* the limiter as a whole starts anew
AdmittedAfterReset(p) ==
    IF now - rate_limiter[p].window_start > RateLimitWindow
    THEN IF redisConfigured
         THEN [q \in Procs |-> 0]
         ELSE [admittedBy EXCEPT ![p] = 0]
    ELSE admittedBy

\* mutant: the in-memory limiter compares with > and admits one call too many
InMemoryCheckOffByOne(p) ==
    LET w == WindowAfterReset(p)
    IN IF w.count > MaxCallsPerHour
       THEN /\ rate_limiter' = [rate_limiter EXCEPT ![p] = w]
            /\ admittedBy' = AdmittedAfterReset(p)
            /\ pc' = [pc EXCEPT ![p] = "idle"]
            /\ lastReturn' = [proc |-> p, value |-> "refused", entry |-> "none"]
       ELSE /\ rate_limiter' = [rate_limiter EXCEPT ![p] = [w EXCEPT !.count = w.count + 1]]
            /\ admittedBy' = [AdmittedAfterReset(p) EXCEPT ![p] = @ + 1]
            /\ pc' = [pc EXCEPT ![p] = "admitted"]
            /\ lastReturn' = lastReturn

\* _check_rate_limit, in-memory branch (lines 116-128); a refusal makes
\* enrich_scholarship return None at once
InMemoryCheck(p) ==
    LET w == WindowAfterReset(p)
    IN IF w.count >= MaxCallsPerHour
       THEN /\ rate_limiter' = [rate_limiter EXCEPT ![p] = w]
            /\ admittedBy' = AdmittedAfterReset(p)
            /\ pc' = [pc EXCEPT ![p] = "idle"]
            /\ lastReturn' = [proc |-> p, value |-> "refused", entry |-> "none"]
       ELSE /\ rate_limiter' = [rate_limiter EXCEPT ![p] = [w EXCEPT !.count = w.count + 1]]
            /\ admittedBy' = [AdmittedAfterReset(p) EXCEPT ![p] = @ + 1]
            /\ pc' = [pc EXCEPT ![p] = "admitted"]
            /\ lastReturn' = lastReturn

\* enrich_scholarship up to the rate check: a cache hit returns the entry
EnrichBegin(p, k, storeOk) ==
    /\ pc[p] = "idle"
    /\ callKey' = [callKey EXCEPT ![p] = k]
    /\ overlapped' = (overlapped \/ \E q \in Procs \ {p} : pc[q] # "idle")
    /\ storeFailed' = (storeFailed \/ (redisConfigured /\ ~storeOk))
    /\ IF CacheHit(p, k, storeOk)
       THEN /\ lastReturn' = [proc |-> p, value |-> "cached",
                               entry |-> _get_cached_enrichment(p, k, storeOk).value]
            /\ pc' = pc
       ELSE /\ lastReturn' = lastReturn
            /\ pc' = [pc EXCEPT ![p] = "check"]
    /\ UNCHANGED <<outsideRate, now, redisConfigured, redisCounter, redisCache,
                   rate_limiter, memory_cache, admittedBy>>

\* _check_rate_limit: redis_client.get(rate_limit_key) and the comparison;
\* without a client, or when the get raises, the in-memory branch decides
RateCheckGet(p, storeOk) ==
    /\ pc[p] = "check"
    /\ storeFailed' = (storeFailed \/ (redisConfigured /\ ~storeOk))
    /\ IF redisConfigured /\ storeOk
       THEN /\ IF ~redisCounter.exists
               THEN /\ pc' = [pc EXCEPT ![p] = "set"]
                    /\ lastReturn' = lastReturn
               ELSE IF redisCounter.value >= MaxCallsPerHour
                    THEN /\ pc' = [pc EXCEPT ![p] = "idle"]
                         /\ lastReturn' = [proc |-> p, value |-> "refused", entry |-> "none"]
                    ELSE /\ pc' = [pc EXCEPT ![p] = "incr"]
                         /\ lastReturn' = lastReturn
            /\ UNCHANGED <<rate_limiter, admittedBy>>
       ELSE InMemoryCheck(p)
    /\ UNCHANGED <<outsideRate, now, redisConfigured, redisCounter, redisCache,
                   memory_cache, callKey, overlapped>>

\* _check_rate_limit: redis_client.set(rate_limit_key, "1", ex=window), the
\* first call of a window
RateCheckSet(p, storeOk) ==
    /\ pc[p] = "set"
    /\ storeFailed' = (storeFailed \/ ~storeOk)
    /\ IF storeOk
       THEN /\ redisCounter' = [exists |-> TRUE, value |-> 1,
                                expireAt |-> now + RateLimitWindow]
            /\ admittedBy' = [admittedBy EXCEPT ![p] = @ + 1]
            /\ pc' = [pc EXCEPT ![p] = "admitted"]
            /\ UNCHANGED <<rate_limiter, lastReturn>>
       ELSE /\ InMemoryCheck(p)
            /\ UNCHANGED redisCounter
    /\ UNCHANGED <<outsideRate, now, redisConfigured, redisCache, memory_cache,
                   callKey, overlapped>>

\* _check_rate_limit: redis_client.incr(rate_limit_key); INCR on a key that
\* expired in the meantime creates it with value 1 and no expiry
RateCheckIncr(p, storeOk) ==
    /\ pc[p] = "incr"
    /\ storeFailed' = (storeFailed \/ ~storeOk)
    /\ IF storeOk
       THEN /\ redisCounter' = IF redisCounter.exists
                               THEN [redisCounter EXCEPT !.value = @ + 1]
                               ELSE [exists |-> TRUE, value |-> 1, expireAt |-> NoExpiry]
            /\ admittedBy' = [admittedBy EXCEPT ![p] = @ + 1]
            /\ pc' = [pc EXCEPT ![p] = "admitted"]
            /\ UNCHANGED <<rate_limiter, lastReturn>>
       ELSE /\ InMemoryCheck(p)
            /\ UNCHANGED redisCounter
    /\ UNCHANGED <<outsideRate, now, redisConfigured, redisCache, memory_cache,
                   callKey, overlapped>>

\* mutant: _cache_enrichment writing the shared store only, without the
\* in-memory copy
GenerateStoreOnly(p, outcome, storeOk) ==
    /\ pc[p] = "admitted"
    /\ pc' = [pc EXCEPT ![p] = "idle"]
    /\ IF outcome = "raise"
       THEN /\ lastReturn' = [proc |-> p, value |-> "failed", entry |-> "none"]
            /\ UNCHANGED <<redisCache, memory_cache, storeFailed>>
       ELSE /\ lastReturn' = [proc |-> p, value |-> outcome, entry |-> "none"]
            /\ storeFailed' = (storeFailed \/ (redisConfigured /\ ~storeOk))
            /\ redisCache' =
                   IF redisConfigured /\ storeOk
                   THEN [redisCache EXCEPT ![callKey[p]] =
                            [exists |-> TRUE, value |-> outcome, expireAt |-> now + CacheTtl]]
                   ELSE redisCache
            /\ UNCHANGED memory_cache
    /\ UNCHANGED <<outsideRate, now, redisConfigured, redisCounter, rate_limiter,
                   callKey, admittedBy, overlapped>>

\* the admitted call: generate_content, _parse_ai_response (which returns the
\* neutral default when the text does not parse) and _cache_enrichment; an
\* exception of generate_content makes enrich_scholarship return None
Generate(p, outcome, storeOk) ==
    /\ pc[p] = "admitted"
    /\ pc' = [pc EXCEPT ![p] = "idle"]
    /\ IF outcome = "raise"
       THEN /\ lastReturn' = [proc |-> p, value |-> "failed", entry |-> "none"]
            /\ UNCHANGED <<redisCache, memory_cache, storeFailed>>
       ELSE /\ lastReturn' = [proc |-> p, value |-> outcome, entry |-> "none"]
            /\ storeFailed' = (storeFailed \/ (redisConfigured /\ ~storeOk))
            /\ redisCache' =
                   IF redisConfigured /\ storeOk
                   THEN [redisCache EXCEPT ![callKey[p]] =
                            [exists |-> TRUE, value |-> outcome, expireAt |-> now + CacheTtl]]
                   ELSE redisCache
            /\ memory_cache' =
                   [memory_cache EXCEPT ![p][callKey[p]] =
                       [exists |-> TRUE, value |-> outcome, expireAt |-> now]]
    /\ UNCHANGED <<outsideRate, now, redisConfigured, redisCounter, rate_limiter,
                   callKey, admittedBy, overlapped>>

\* a key of the shared store at time t: gone once its expiry is reached
AtTime(key, t) ==
    IF key.exists /\ key.expireAt # NoExpiry /\ key.expireAt <= t THEN Absent ELSE key

\* time passes; the shared store drops what has expired, and the expiry of
\* the counter key ends the limiter's window
Tick ==
    /\ now < MaxTime
    /\ now' = now + 1
    /\ redisCounter' = AtTime(redisCounter, now + 1)
    /\ redisCache' = [k \in CacheKeys |-> AtTime(redisCache[k], now + 1)]
    /\ admittedBy' = IF redisCounter.exists /\ ~AtTime(redisCounter, now + 1).exists
                     THEN [q \in Procs |-> 0]
                     ELSE admittedBy
    /\ UNCHANGED <<outsideRate, redisConfigured, rate_limiter, memory_cache, pc,
                   callKey, lastReturn, overlapped, storeFailed>>

NextRate ==
    \/ \E p \in Procs, k \in CacheKeys, ok \in BOOLEAN : EnrichBegin(p, k, ok)
    \/ \E p \in Procs, ok \in BOOLEAN : RateCheckGet(p, ok)
    \/ \E p \in Procs, ok \in BOOLEAN : RateCheckSet(p, ok)
    \/ \E p \in Procs, ok \in BOOLEAN : RateCheckIncr(p, ok)
    \/ \E p \in Procs, ok \in BOOLEAN :
           \E outcome \in {"parsed", "default", "raise"} : Generate(p, outcome, ok)
    \/ Tick

SpecRate == InitRate /\ [][NextRate]_vars

(***************************************************************************)
(* Claims about the rate limiter (checked in SpecRate).                    *)
(***************************************************************************)
\* the sum of f over the processes 1..n
RECURSIVE SumUpTo(_, _)
SumUpTo(f, n) == IF n = 0 THEN 0 ELSE f[n] + SumUpTo(f, n - 1)

\* the calls admitted in the current window by the limiter p belongs to: all
\* processes share one limiter when the store is configured
AdmittedInWindow(p) ==
    IF redisConfigured THEN SumUpTo(admittedBy, NumProcs) ELSE admittedBy[p]

\* C6: after N = MaxCallsPerHour calls were admitted within one window, the
\* next call that misses the cache is refused (and the model is not called):
\* with calls made one after the other, no window sees more than N admitted.
C6_RefusedAfterCap ==
    ~overlapped => \A p \in Procs : AdmittedInWindow(p) <= MaxCallsPerHour

\* C7: under any interleaving of calls of processes sharing the counter
\* (read, compare, then increment), the number of calls admitted within one
\* window never exceeds the cap by more than one.
C7_RaceExceedsByAtMostOne ==
    (redisConfigured /\ ~storeFailed) =>
        \A p \in Procs : AdmittedInWindow(p) <= MaxCallsPerHour + 1

(***************************************************************************)
(* Raw opportunities: the fields the deduplicator reads, and the url that  *)
(* tells two records with the same name and organization apart.            *)
(***************************************************************************)
Names == {<<"G", "s">>, <<"g", "s">>, <<"g", "s", "_">>}
Organizations == {<<"F">>, <<"f">>, <<"_", "f">>}
Urls == {"u1", "u2"}
RawPool == [name : Names, organization : Organizations, url : Urls]

\* the sequences over S of length at most n
SeqsUpTo(S, n) == UNION {[1..k -> S] : k \in 0..n}

(***************************************************************************)
(* _deduplicate applied to a drawn list, then to its own result.           *)
(***************************************************************************)
InitDedup ==
    /\ opportunities \in SeqsUpTo(RawPool, MaxLen)
    /\ unique = <<>>
    /\ uniqueAgain = <<>>
    /\ dedupPc = "input"
    /\ AggIdle
    /\ RateIdle
    /\ JobIdle
    /\ OthersIdle

\* unique_opportunities = self._deduplicate(all_opportunities)
Deduplicate ==
    /\ dedupPc = "input"
    /\ unique' = _deduplicate(opportunities)
    /\ dedupPc' = "once"
    /\ UNCHANGED <<outsideAgg, opportunities, uniqueAgain, varsAgg>>

\* the same call on the list it returned
DeduplicateAgain ==
    /\ dedupPc = "once"
    /\ uniqueAgain' = _deduplicate(unique)
    /\ dedupPc' = "twice"
    /\ UNCHANGED <<outsideAgg, opportunities, unique, varsAgg>>

(***************************************************************************)
(* The aggregator: discover_all_opportunities.                             *)
(***************************************************************************)
\* scraper_names, in the order the scrapers are handed to asyncio.gather
ScraperNames == <<"Devpost", "MLH", "Gitcoin", "Kaggle", "Scholarships">>
Scrapers == {ScraperNames[i] : i \in 1..Len(ScraperNames)}

\* the spelling each source gives the one opportunity all of them list
SharedName(a) ==
    CASE a = "Devpost" -> <<"G", "s">>
      [] a = "MLH" -> <<"g", "s">>
      [] a = "Gitcoin" -> <<"G", "S">>
      [] a = "Kaggle" -> <<"g", "S">>
      [] OTHER -> <<"G", "s">>

SharedOrganization(a) == IF a \in {"Devpost", "Gitcoin"} THEN <<"F">> ELSE <<"f">>

\* a second opportunity, listed by several sources under the same spelling
OtherName(a) == IF a \in {"MLH", "Kaggle"} THEN <<"K">> ELSE <<"k">>

\* what one scrape() call can yield: an exception, or a list
ScrapeOutcomes(a) ==
    { Raised,
      Returned(<<>>),
      Returned(<<[name |-> SharedName(a), organization |-> SharedOrganization(a), url |-> a]>>),
      Returned(<<[name |-> OtherName(a), organization |-> <<"f">>, url |-> a],
                 [name |-> SharedName(a), organization |-> SharedOrganization(a), url |-> a]>>) }

\* mutant: results are taken in the order the tasks finished (as_completed)
GatherAsCompleted(res, order) == [i \in 1..Len(order) |-> res[order[i]]]

\* asyncio.gather(..., return_exceptions=True): one result per awaitable, in the
\* order the awaitables were passed, whatever order they finished in
Gather(res, order) == [i \in 1..Len(ScraperNames) |-> res[ScraperNames[i]]]

\* mutant: one raised exception fails the batch (gather without return_exceptions)
ExtendAllOrNothing(gathered, idx, all) ==
    IF \E i \in 1..Len(gathered) : gathered[i].kind = "raised"
    THEN <<>>
    ELSE [i \in 1..Len(gathered) |-> gathered[i].items][1] \o
         [i \in 1..Len(gathered) |-> gathered[i].items][2] \o
         [i \in 1..Len(gathered) |-> gathered[i].items][3] \o
         [i \in 1..Len(gathered) |-> gathered[i].items][4] \o
         [i \in 1..Len(gathered) |-> gathered[i].items][5]

\* the loop "for idx, result in enumerate(results)": lists are appended in
\* turn, anything else (an exception) is logged and skipped
RECURSIVE ExtendAll(_, _, _)
ExtendAll(gathered, idx, all) ==
    IF idx > Len(gathered) THEN all
    ELSE IF gathered[idx].kind = "list"
         THEN ExtendAll(gathered, idx + 1, all \o gathered[idx].items)
         ELSE ExtendAll(gathered, idx + 1, all)

InitAgg ==
    /\ scraperOut \in {f \in [Scrapers -> UNION {ScrapeOutcomes(a) : a \in Scrapers}] :
                          \A a \in Scrapers : f[a] \in ScrapeOutcomes(a)}
    /\ results = [a \in Scrapers |-> Pending]
    /\ finishOrder = <<>>
    /\ aggPc = "gathering"
    /\ aggUnique = <<>>
    /\ prevUnique = <<>>
    /\ runNo = 1
    /\ DedupIdle
    /\ RateIdle
    /\ JobIdle
    /\ OthersIdle

\* one scraper task finishes: its slot of the gather is filled
ScraperFinish(a) ==
    /\ aggPc = "gathering"
    /\ results[a] = Pending
    /\ results' = [results EXCEPT ![a] = scraperOut[a]]
    /\ finishOrder' = Append(finishOrder, a)
    /\ UNCHANGED <<outsideAgg, scraperOut, aggPc, aggUnique, prevUnique, runNo, varsDedup>>

\* the gather returns once every task has finished; the rest of
\* discover_all_opportunities runs without suspension
Aggregate ==
    /\ aggPc = "gathering"
    /\ \A a \in Scrapers : results[a] # Pending
    /\ aggUnique' = _deduplicate(ExtendAll(Gather(results, finishOrder), 1, <<>>))
    /\ aggPc' = "done"
    /\ UNCHANGED <<outsideAgg, scraperOut, results, finishOrder, prevUnique, runNo, varsDedup>>

\* discover_all_opportunities is called again; the sources answer as before
DiscoverAgain ==
    /\ aggPc = "done"
    /\ runNo < MaxRuns
    /\ prevUnique' = aggUnique
    /\ results' = [a \in Scrapers |-> Pending]
    /\ finishOrder' = <<>>
    /\ aggUnique' = <<>>
    /\ aggPc' = "gathering"
    /\ runNo' = runNo + 1
    /\ UNCHANGED <<outsideAgg, scraperOut, varsDedup>>

NextAgg ==
    \/ \E a \in Scrapers : ScraperFinish(a)
    \/ Aggregate
    \/ DiscoverAgain
    \/ Deduplicate
    \/ DeduplicateAgain

\* the deduplicator on drawn lists, and the aggregator on drawn adapter outputs
SpecAgg == (InitDedup \/ InitAgg) /\ [][NextAgg]_vars


(***************************************************************************)
(* Claims about the deduplicator and the aggregator (checked in SpecAgg).  *)
(***************************************************************************)
\* the key as the specification words it
ClaimKey(opp) == Lower(opp.name) \o <<"_">> \o Lower(opp.organization)

\* the least element of a non-empty set of numbers
Least(S) == CHOOSE x \in S : \A y \in S : x <= y

\* the positions of list whose entry has key k
PositionsOf(list, k) == {i \in 1..Len(list) : ClaimKey(list[i]) = k}

\* C8: the output of _deduplicate holds no two opportunities with equal keys
\* lowercase(name) + "_" + lowercase(organization), every key of the input is
\* represented, and for each key the opportunity kept is the first one with
\* that key in the input (entries differing only in letter case collapse).
C8_DedupFirstOccurrenceWins ==
    dedupPc \in {"once", "twice"} =>
        /\ \A i, j \in 1..Len(unique) :
               i # j => ClaimKey(unique[i]) # ClaimKey(unique[j])
        /\ \A i \in 1..Len(opportunities) :
               PositionsOf(unique, ClaimKey(opportunities[i])) # {}
        /\ \A j \in 1..Len(unique) :
               /\ PositionsOf(opportunities, ClaimKey(unique[j])) # {}
               /\ unique[j] = opportunities[Least(PositionsOf(opportunities, ClaimKey(unique[j])))]

\* two entries that differ in letter case only were collapsed
C8_Witness ==
    /\ dedupPc = "once"
    /\ Len(opportunities) = MaxLen
    /\ Len(unique) < Len(opportunities)
    /\ \E i, j \in 1..Len(opportunities) :
           /\ i < j
           /\ opportunities[i].name # opportunities[j].name
           /\ opportunities[i].organization # opportunities[j].organization
           /\ ClaimKey(opportunities[i]) = ClaimKey(opportunities[j])

\* C9: deduplication is idempotent (applied to its own output it returns the
\* same list in the same order), and a second run of the aggregator over the
\* same adapter outputs returns the same unique list in the same order.
C9_DedupIdempotentRunsAgree ==
    /\ dedupPc = "twice" => uniqueAgain = unique
    /\ (aggPc = "done" /\ runNo > 1) => aggUnique = prevUnique

\* a second run has returned, its tasks having finished in reverse
\* registration order, with a clash between adapters resolved
C9_Witness ==
    /\ aggPc = "done"
    /\ runNo > 1
    /\ Len(aggUnique) >= 2
    /\ Len(ExtendAll(Gather(results, finishOrder), 1, <<>>)) > Len(aggUnique)
    /\ finishOrder = <<"Scholarships", "Kaggle", "Gitcoin", "MLH", "Devpost">>

\* the places in registration order of the adapters that returned key k
HoldersOf(k) ==
    {i \in 1..Len(ScraperNames) :
        /\ results[ScraperNames[i]].kind = "list"
        /\ PositionsOf(results[ScraperNames[i]].items, k) # {}}

\* C10: when two adapters return opportunities with the same key, the one
\* kept comes from the adapter earlier in registration order, whatever order
\* the adapters finished in.
C10_RegistrationOrderWins ==
    aggPc = "done" =>
        \A j \in 1..Len(aggUnique) :
            /\ HoldersOf(ClaimKey(aggUnique[j])) # {}
            /\ aggUnique[j].url = ScraperNames[Least(HoldersOf(ClaimKey(aggUnique[j])))]

\* a clash between two adapters where the later-registered one finished first
C10_Witness ==
    /\ aggPc = "done"
    /\ \E j \in 1..Len(aggUnique) :
           /\ Cardinality(HoldersOf(ClaimKey(aggUnique[j]))) >= 2
           /\ \E p, q \in 1..Len(finishOrder) :
                  /\ p < q
                  /\ finishOrder[q] = aggUnique[j].url
                  /\ finishOrder[p] # aggUnique[j].url
                  /\ results[finishOrder[p]].kind = "list"
                  /\ PositionsOf(results[finishOrder[p]].items, ClaimKey(aggUnique[j])) # {}

(***************************************************************************)
(* The scoring engine (matching_service.py).  Scores are kept in           *)
(* hundredths of a point, component scores in hundredths of 1.0, GPAs in   *)
(* hundredths, effort in half hours; 0 and the empty string stand for      *)
(* None where the code tests truthiness.                                   *)
(***************************************************************************)
\* a in b, for Python strings
IsSubstring(a, b) ==
    \E i \in 0..(Len(b) - Len(a)) : SubSeq(b, i + 1, i + Len(a)) = a

\* set([x.lower() for x in list])
LowerSet(list) == {Lower(list[i]) : i \in 1..Len(list)}

\* _score_eligibility
_score_eligibility(opp, profile) ==
    LET gpaFactor == IF opp.gpa_min # 0 /\ profile.gpa # 0 /\ profile.gpa < opp.gpa_min
                     THEN 30 ELSE 100
        majorMiss == /\ Len(opp.majors) > 0
                     /\ Len(profile.major) > 0
                     /\ ~\E i \in 1..Len(opp.majors) :
                            IsSubstring(Lower(opp.majors[i]), Lower(profile.major))
    IN IF opp.grades_eligible # {} /\ profile.academic_status \notin opp.grades_eligible
       THEN 0
       ELSE IF majorMiss THEN (gpaFactor * 60) \div 100 ELSE gpaFactor

\* _score_interests, times the weight 25 and rounded to hundredths of a point
InterestPoints(opp, profile) ==
    IF Len(profile.interests) = 0 \/ Len(opp.tags) = 0
    THEN 1250
    ELSE LET user_interests == LowerSet(profile.interests)
             opp_tags == LowerSet(opp.tags)
             intersection == Cardinality(user_interests \cap opp_tags)
             union == Cardinality(user_interests \cup opp_tags)
             bonus == IF Len(profile.major) > 0 /\ Lower(profile.major) \in opp_tags
                      THEN 3 ELSE 0
             tenths == 10 * intersection + bonus * union
         IN IF tenths >= 10 * union
            THEN 2500
            ELSE (2 * 250 * tenths + union) \div (2 * union)

\* _score_urgency
_score_urgency(opp) ==
    IF ~opp.deadlineParses THEN 50
    ELSE IF 7 <= opp.deadlineDays /\ opp.deadlineDays <= 60 THEN 100
    ELSE IF opp.deadlineDays < 7 /\ opp.deadlineDays >= 0 THEN 80
    ELSE IF opp.deadlineDays < 0 THEN 0
    ELSE 50

\* mutant: the ratio itself instead of its bucket
_score_value_unbucketed(opp, profile) ==
    IF profile.financial_need = 0 THEN 50
    ELSE IF opp.amount >= profile.financial_need THEN 100
    ELSE (100 * opp.amount) \div profile.financial_need

\* _score_value
_score_value(opp, profile) ==
    IF profile.financial_need = 0 THEN 50
    ELSE IF 10 * opp.amount >= 8 * profile.financial_need THEN 100
    ELSE IF 10 * opp.amount >= 5 * profile.financial_need THEN 80
    ELSE IF 10 * opp.amount >= 2 * profile.financial_need THEN 60
    ELSE 40

\* _estimate_effort, in half hours
_estimate_effort(opp) ==
    4 + (IF opp.essay THEN 6 * opp.essay_prompts ELSE 0)
      + (IF opp.recommendation_letters > 0 THEN 2 * opp.recommendation_letters ELSE 0)
      + (IF opp.transcript THEN 1 ELSE 0)
      + (IF opp.resume THEN 2 ELSE 0)

\* _score_effort
_score_effort(opp) ==
    IF _estimate_effort(opp) <= 10 THEN 100
    ELSE IF _estimate_effort(opp) <= 20 THEN 80
    ELSE 50

\* mutant: the eligibility component only weighs in, it does not gate
calculate_match_score_ungated(opp, profile) ==
    _score_eligibility(opp, profile) * 30
    + InterestPoints(opp, profile)
    + _score_urgency(opp) * 20
    + _score_value(opp, profile) * 15
    + _score_effort(opp) * 10

\* calculate_match_score: 0 when the eligibility component is below 0.5
calculate_match_score(opp, profile) ==
    IF _score_eligibility(opp, profile) < 50
    THEN 0
    ELSE _score_eligibility(opp, profile) * 30
         + InterestPoints(opp, profile)
         + _score_urgency(opp) * 20
         + _score_value(opp, profile) * 15
         + _score_effort(opp) * 10

\* mutant: "Fair" starts at 55
MatchTierCutoff55(score) ==
    IF score >= 8500 THEN "Excellent"
    ELSE IF score >= 7000 THEN "Good"
    ELSE IF score >= 5500 THEN "Fair"
    ELSE "Poor"

\* the tier _filter_and_rank assigns
MatchTier(score) ==
    IF score >= 8500 THEN "Excellent"
    ELSE IF score >= 7000 THEN "Good"
    ELSE IF score >= 5000 THEN "Fair"
    ELSE "Poor"

(***************************************************************************)
(* Opportunities and profiles of the model.  A stored opportunity is       *)
(* [id, kind, match_score, match_tier]; its other fields are those of its  *)
(* kind.  The kind "drawn" is the opportunity drawn for the scoring        *)
(* functions (scoreOpp).                                                   *)
(***************************************************************************)
NoMajors == <<>>
OpportunityOfKind(kind) ==
    CASE kind = "ai_award" ->
           [gpa_min |-> 300, grades_eligible |-> {"Undergraduate"}, majors |-> NoMajors,
            tags |-> << <<"A", "I">>, <<"S", "T", "E", "M">> >>,
            deadlineParses |-> TRUE, deadlineDays |-> 20, amount |-> 8000,
            essay |-> FALSE, essay_prompts |-> 0, recommendation_letters |-> 0,
            transcript |-> FALSE, resume |-> FALSE]
      [] kind = "bio_grant" ->
           [gpa_min |-> 0, grades_eligible |-> {}, majors |-> << <<"B", "i", "o">> >>,
            tags |-> << <<"b", "i", "o">> >>,
            deadlineParses |-> TRUE, deadlineDays |-> 3, amount |-> 1000,
            essay |-> TRUE, essay_prompts |-> 2, recommendation_letters |-> 2,
            transcript |-> TRUE, resume |-> FALSE]
      [] kind = "seniors_only" ->
           [gpa_min |-> 0, grades_eligible |-> {"High School Senior"}, majors |-> NoMajors,
            tags |-> << <<"A", "I">> >>,
            deadlineParses |-> TRUE, deadlineDays |-> 30, amount |-> 20000,
            essay |-> FALSE, essay_prompts |-> 0, recommendation_letters |-> 0,
            transcript |-> FALSE, resume |-> FALSE]
      [] kind = "high_gpa" ->
           [gpa_min |-> 380, grades_eligible |-> {}, majors |-> NoMajors,
            tags |-> << <<"a", "i">> >>,
            deadlineParses |-> TRUE, deadlineDays |-> 90, amount |-> 5000,
            essay |-> TRUE, essay_prompts |-> 1, recommendation_letters |-> 0,
            transcript |-> FALSE, resume |-> TRUE]
      [] kind = "drawn" -> scoreOpp
      [] OTHER ->
           [gpa_min |-> 0, grades_eligible |-> {}, majors |-> NoMajors,
            tags |-> <<>>,
            deadlineParses |-> FALSE, deadlineDays |-> 0, amount |-> 0,
            essay |-> FALSE, essay_prompts |-> 0, recommendation_letters |-> 0,
            transcript |-> FALSE, resume |-> FALSE]

Kinds == {"ai_award", "bio_grant", "seniors_only", "high_gpa", "rolling_bounty"}

Users == {"u1", "u2"}

\* request.profile of each user
ProfileOf(u) ==
    IF u = "u1"
    THEN [academic_status |-> "Undergraduate", gpa |-> 350,
          major |-> <<"C", "S">>, interests |-> << <<"A", "I">> >>,
          financial_need |-> 10000]
    ELSE [academic_status |-> "Graduate", gpa |-> 0,
          major |-> <<"B", "i", "o">>, interests |-> <<>>,
          financial_need |-> 0]

\* the loop of _filter_and_rank: score, tier, keep what scores above 0
RECURSIVE ScoreAndFilter(_, _, _, _)
ScoreAndFilter(opps, i, profile, eligible) ==
    IF i > Len(opps) THEN eligible
    ELSE LET score == calculate_match_score(OpportunityOfKind(opps[i].kind), profile)
             scored == [opps[i] EXCEPT !.match_score = score, !.match_tier = MatchTier(score)]
         IN IF score > 0
            THEN ScoreAndFilter(opps, i + 1, profile, Append(eligible, scored))
            ELSE ScoreAndFilter(opps, i + 1, profile, eligible)

\* mutant: ascending order (reverse=True left out)
RECURSIVE InsertByScoreAscending(_, _)
InsertByScoreAscending(sorted, x) ==
    IF sorted = <<>> THEN <<x>>
    ELSE IF Head(sorted).match_score <= x.match_score
         THEN <<Head(sorted)>> \o InsertByScoreAscending(Tail(sorted), x)
         ELSE <<x>> \o sorted

\* insert x behind every entry whose score is at least as high (stable)
RECURSIVE InsertByScore(_, _)
InsertByScore(sorted, x) ==
    IF sorted = <<>> THEN <<x>>
    ELSE IF Head(sorted).match_score >= x.match_score
         THEN <<Head(sorted)>> \o InsertByScore(Tail(sorted), x)
         ELSE <<x>> \o sorted

\* sorted(eligible, key=lambda x: x.match_score, reverse=True)
RECURSIVE SortedByScore(_, _, _)
SortedByScore(list, i, sorted) ==
    IF i > Len(list) THEN sorted
    ELSE SortedByScore(list, i + 1, InsertByScore(sorted, list[i]))

\* _filter_and_rank
_filter_and_rank(opps, profile) ==
    SortedByScore(ScoreAndFilter(opps, 1, profile, <<>>), 1, <<>>)

(***************************************************************************)
(* The orchestrator: POST /api/scholarships/discover, the background run   *)
(* it schedules, and the discovery_jobs records.  A request's uuid4 job id *)
(* is the request's number.  Every database call is a step of its own and  *)
(* either succeeds or raises (ok).                                         *)
(***************************************************************************)
\* requests of one behaviour
MaxRequests == 2
Requests == 1..MaxRequests
\* size of the large initial cache
BigCacheSize == 36
\* matched[:30]
MaxImmediateResults == 30

\* a stored opportunity before _filter_and_rank scored it
Stored(id, kind) == [id |-> id, kind |-> kind, match_score |-> 0, match_tier |-> "Poor"]

\* the kind of the i-th document of the large cache
BigCacheKind(i) ==
    IF i % 3 = 1 THEN "bio_grant" ELSE IF i % 3 = 2 THEN "ai_award" ELSE "rolling_bounty"

\* the 'scholarships' collection when the behaviour starts
InitialCaches ==
    { <<>>,
      <<Stored(1, "seniors_only"), Stored(2, "high_gpa")>>,
      <<Stored(1, "bio_grant"), Stored(2, "ai_award")>>,
      [i \in 1..BigCacheSize |-> Stored(i, BigCacheKind(i))] }

\* what discover_all_opportunities can return, as the kinds _convert_to_scholarship keeps
ScrapeResults == { <<>>, <<"bio_grant", "ai_award">> }

\* the attributes of the FirebaseDB instance db
FirebaseDBMethods ==
    {"get_user_profile", "update_user_profile", "save_scholarship", "get_scholarship",
     "get_all_scholarships", "get_user_matched_scholarships", "save_user_matches",
     "save_user_scholarship", "unsave_user_scholarship", "start_application",
     "save_application_draft", "get_application_draft", "submit_application",
     "get_user_applications", "get_application_by_id", "update_application_status",
     "create_discovery_job", "update_discovery_job", "get_discovery_job",
     "save_chat_message", "get_chat_history", "clear_chat_history"}

NoJob == [exists |-> FALSE, user_id |-> "", status |-> "idle", progress |-> 0,
          scholarships_found |-> 0]
NoMatches == [exists |-> FALSE, scholarship_ids |-> <<>>]
NoResponse == [status |-> "idle", immediate_results |-> <<>>, job_id |-> 0,
               estimated_completion |-> 0, total_found |-> 0]

\* [s.id for s in matched]
IdsOf(matched) == [i \in 1..Len(matched) |-> matched[i].id]

\* matched[:n]
Prefix(list, n) == SubSeq(list, 1, IF Len(list) < n THEN Len(list) ELSE n)

\* mutant: create_discovery_job writing status 'idle'
CreatedJobIdle(u) ==
    [exists |-> TRUE, user_id |-> u, status |-> "idle", progress |-> 0,
     scholarships_found |-> 0]

\* the document create_discovery_job sets
CreatedJob(u) ==
    [exists |-> TRUE, user_id |-> u, status |-> "processing", progress |-> 0,
     scholarships_found |-> 0]

\* the document after update_discovery_job's doc_ref.update
UpdatedJob(job, status, progress, found) ==
    [job EXCEPT !.status = status, !.progress = progress, !.scholarships_found = found]

InitJob ==
    /\ scholarships \in InitialCaches
    /\ user_matches = [u \in Users |-> NoMatches]
    /\ discovery_jobs = [j \in Requests |-> NoJob]
    /\ nextId = BigCacheSize + 1
    /\ reqPc = [r \in Requests |-> "idle"]
    /\ reqUser = [r \in Requests |-> ""]
    /\ reqCacheSize = [r \in Requests |-> 0]
    /\ reqMatched = [r \in Requests |-> <<>>]
    /\ response = [r \in Requests |-> NoResponse]
    /\ scheduled = [j \in Requests |-> 0]
    /\ bgPc = [j \in Requests |-> "idle"]
    /\ bgMatched = [j \in Requests |-> <<>>]
    /\ bgSaved = [j \in Requests |-> 0]
    /\ bgOutcome = [j \in Requests |-> "none"]
    /\ DedupIdle /\ AggIdle /\ RateIdle /\ OthersIdle

\* start_discovery_job up to and including the ranking of the cached set
\* (matching_service.py 34-43); a raise becomes the route's HTTP 500
StartDiscoveryRead(r, u, ok) ==
    /\ reqPc[r] = "idle"
    /\ IF r = 1 THEN TRUE ELSE reqPc[r - 1] # "idle"
    /\ reqUser' = [reqUser EXCEPT ![r] = u]
    /\ IF ok
       THEN /\ reqPc' = [reqPc EXCEPT ![r] = "read"]
            /\ reqCacheSize' = [reqCacheSize EXCEPT ![r] = Len(scholarships)]
            /\ reqMatched' = [reqMatched EXCEPT ![r] =
                   IF scholarships # <<>>
                   THEN _filter_and_rank(scholarships, ProfileOf(u))
                   ELSE <<>>]
       ELSE /\ reqPc' = [reqPc EXCEPT ![r] = "raised"]
            /\ UNCHANGED <<reqCacheSize, reqMatched>>
    /\ UNCHANGED <<scholarships, user_matches, discovery_jobs, nextId, response, scheduled,
                   bgPc, bgMatched, bgSaved, bgOutcome, outsideJob>>

\* the fast path: save_user_matches and the completed response (44-55);
\* the route schedules nothing
StartDiscoveryFastPath(r, ok) ==
    /\ reqPc[r] = "read"
    /\ reqMatched[r] # <<>>
    /\ IF ok
       THEN /\ user_matches' = [user_matches EXCEPT ![reqUser[r]] =
                   [exists |-> TRUE, scholarship_ids |-> IdsOf(reqMatched[r])]]
            /\ response' = [response EXCEPT ![r] =
                   [status |-> "completed",
                    immediate_results |-> Prefix(reqMatched[r], MaxImmediateResults),
                    job_id |-> r,
                    estimated_completion |-> 0,
                    total_found |-> Len(reqMatched[r])]]
            /\ reqPc' = [reqPc EXCEPT ![r] = "returned"]
       ELSE /\ reqPc' = [reqPc EXCEPT ![r] = "raised"]
            /\ UNCHANGED <<user_matches, response>>
    /\ UNCHANGED <<scholarships, discovery_jobs, nextId, reqUser, reqCacheSize, reqMatched,
                   scheduled, bgPc, bgMatched, bgSaved, bgOutcome, outsideJob>>

\* the slow path: create_discovery_job, the processing response (57-66), and
\* the route's add_task for a processing response with a job id
StartDiscoverySlowPath(r, ok) ==
    /\ reqPc[r] = "read"
    /\ reqMatched[r] = <<>>
    /\ IF ok
       THEN /\ discovery_jobs' = [discovery_jobs EXCEPT ![r] = CreatedJob(reqUser[r])]
            /\ response' = [response EXCEPT ![r] =
                   [status |-> "processing",
                    immediate_results |-> <<>>,
                    job_id |-> r,
                    estimated_completion |-> 15,
                    total_found |-> 0]]
            /\ scheduled' = [scheduled EXCEPT ![r] = @ + 1]
            /\ bgPc' = [bgPc EXCEPT ![r] = "scheduled"]
            /\ reqPc' = [reqPc EXCEPT ![r] = "returned"]
       ELSE /\ reqPc' = [reqPc EXCEPT ![r] = "raised"]
            /\ UNCHANGED <<discovery_jobs, response, scheduled, bgPc>>
    /\ UNCHANGED <<scholarships, user_matches, nextId, reqUser, reqCacheSize, reqMatched,
                   bgMatched, bgSaved, bgOutcome, outsideJob>>

\* the handler of run_background_discovery's except clause, and the call in
\* line 112: db.update_job_status.  db has no such attribute, so evaluating
\* it raises AttributeError: the record is not written and the task ends.
JobAfterUpdateJobStatus(job, status, found) ==
    IF "update_job_status" \in FirebaseDBMethods
    THEN [job EXCEPT !.status = status, !.scholarships_found = found]
    ELSE job

\* run_background_discovery: scraping, conversion with fresh ids, ranking (85-102)
BgScrape(j, kinds) ==
    /\ bgPc[j] = "scheduled"
    /\ bgMatched' = [bgMatched EXCEPT ![j] =
           _filter_and_rank([i \in 1..Len(kinds) |-> Stored(nextId + i - 1, kinds[i])],
                            ProfileOf(reqUser[j]))]
    /\ nextId' = nextId + Len(kinds)
    /\ bgPc' = [bgPc EXCEPT ![j] = "saving"]
    /\ UNCHANGED <<scholarships, user_matches, discovery_jobs, reqPc, reqUser, reqCacheSize,
                   reqMatched, response, scheduled, bgSaved, bgOutcome, outsideJob>>

\* discover_all_opportunities raises: the except clause runs (120-122)
BgScrapeRaises(j) ==
    /\ bgPc[j] = "scheduled"
    /\ bgOutcome' = [bgOutcome EXCEPT ![j] = "raised"]
    /\ discovery_jobs' = [discovery_jobs EXCEPT ![j] = JobAfterUpdateJobStatus(@, "failed", 0)]
    /\ bgPc' = [bgPc EXCEPT ![j] = "ended"]
    /\ UNCHANGED <<scholarships, user_matches, nextId, reqPc, reqUser, reqCacheSize,
                   reqMatched, response, scheduled, bgMatched, bgSaved, outsideJob>>

\* one round of the loop of lines 105-106: save_scholarship
BgSaveScholarship(j, ok) ==
    /\ bgPc[j] = "saving"
    /\ bgSaved[j] < Len(bgMatched[j])
    /\ IF ok
       THEN /\ scholarships' = Append(scholarships, bgMatched[j][bgSaved[j] + 1])
            /\ bgSaved' = [bgSaved EXCEPT ![j] = @ + 1]
            /\ UNCHANGED <<discovery_jobs, bgPc, bgOutcome>>
       ELSE /\ bgOutcome' = [bgOutcome EXCEPT ![j] = "raised"]
            /\ discovery_jobs' = [discovery_jobs EXCEPT ![j] =
                   JobAfterUpdateJobStatus(@, "failed", 0)]
            /\ bgPc' = [bgPc EXCEPT ![j] = "ended"]
            /\ UNCHANGED <<scholarships, bgSaved>>
    /\ UNCHANGED <<user_matches, nextId, reqPc, reqUser, reqCacheSize, reqMatched, response,
                   scheduled, bgMatched, outsideJob>>

\* mutant: the match list written before the opportunities are saved
BgSaveMatchesFirst(j, ok) ==
    /\ bgPc[j] = "saving"
    /\ user_matches' = [user_matches EXCEPT ![reqUser[j]] =
           [exists |-> TRUE, scholarship_ids |-> IdsOf(bgMatched[j])]]
    /\ bgOutcome' = [bgOutcome EXCEPT ![j] = "stored"]
    /\ bgPc' = [bgPc EXCEPT ![j] = "ended"]
    /\ UNCHANGED <<scholarships, discovery_jobs, nextId, reqPc, reqUser, reqCacheSize,
                   reqMatched, response, scheduled, bgMatched, bgSaved, outsideJob>>

\* save_user_matches and the job update of lines 108-116
BgSaveMatches(j, ok) ==
    /\ bgPc[j] = "saving"
    /\ bgSaved[j] = Len(bgMatched[j])
    /\ IF ok
       THEN /\ user_matches' = [user_matches EXCEPT ![reqUser[j]] =
                   [exists |-> TRUE, scholarship_ids |-> IdsOf(bgMatched[j])]]
            /\ bgOutcome' = [bgOutcome EXCEPT ![j] = "stored"]
            /\ discovery_jobs' = [discovery_jobs EXCEPT ![j] =
                   JobAfterUpdateJobStatus(@, "completed", Len(bgMatched[j]))]
       ELSE /\ bgOutcome' = [bgOutcome EXCEPT ![j] = "raised"]
            /\ discovery_jobs' = [discovery_jobs EXCEPT ![j] =
                   JobAfterUpdateJobStatus(@, "failed", 0)]
            /\ UNCHANGED user_matches
    /\ bgPc' = [bgPc EXCEPT ![j] = "ended"]
    /\ UNCHANGED <<scholarships, nextId, reqPc, reqUser, reqCacheSize, reqMatched, response,
                   scheduled, bgMatched, bgSaved, outsideJob>>

\* the arguments callers of update_discovery_job pass: status, progress, scholarships_found
UpdateCalls ==
    { [status |-> "processing", progress |-> 50, scholarships_found |-> 1],
      [status |-> "completed", progress |-> 100, scholarships_found |-> 2],
      [status |-> "failed", progress |-> 100, scholarships_found |-> 0] }

\* FirebaseDB.update_discovery_job: doc_ref.update on an existing document
update_discovery_job(j, status, progress, found) ==
    /\ discovery_jobs[j].exists
    /\ discovery_jobs' = [discovery_jobs EXCEPT ![j] = UpdatedJob(@, status, progress, found)]
    /\ UNCHANGED <<scholarships, user_matches, nextId, reqPc, reqUser, reqCacheSize,
                   reqMatched, response, scheduled, bgPc, bgMatched, bgSaved, bgOutcome,
                   outsideJob>>

\* documents the scheduled refreshes of one behaviour store at most
MaxRefreshSaves == 1

\* the documents the refreshes have stored: the refresh does not run
\* _filter_and_rank, so they carry no score of the scoring engine
RefreshSaved ==
    {i \in 1..Len(scholarships) :
        scholarships[i].id > BigCacheSize /\ scholarships[i].match_score = 0}

\* refresh_opportunities_job, one round of its save loop (lines 61-65): an
\* opportunity of the scrape, converted under a fresh uuid4 with the generic
\* profile, is saved (a failing save is logged and changes nothing)
RefreshSave(kind) ==
    /\ Cardinality(RefreshSaved) < MaxRefreshSaves
    /\ nextId' = nextId + 1
    /\ scholarships' = Append(scholarships, Stored(nextId, kind))
    /\ UNCHANGED <<user_matches, discovery_jobs, reqPc, reqUser, reqCacheSize, reqMatched,
                   response, scheduled, bgPc, bgMatched, bgSaved, bgOutcome, outsideJob>>

\* the steps of the background runs
BgStep ==
    \E j \in Requests :
        \/ \E kinds \in ScrapeResults : BgScrape(j, kinds)
        \/ BgScrapeRaises(j)
        \/ \E ok \in BOOLEAN : BgSaveScholarship(j, ok)
        \/ \E ok \in BOOLEAN : BgSaveMatches(j, ok)

NextJob ==
    \/ \E r \in Requests, u \in Users, ok \in BOOLEAN : StartDiscoveryRead(r, u, ok)
    \/ \E r \in Requests, ok \in BOOLEAN : StartDiscoveryFastPath(r, ok)
    \/ \E r \in Requests, ok \in BOOLEAN : StartDiscoverySlowPath(r, ok)
    \/ BgStep
    \/ \E kind \in {"bio_grant", "ai_award"} : RefreshSave(kind)
    \/ \E j \in Requests, call \in UpdateCalls :
          update_discovery_job(j, call.status, call.progress, call.scholarships_found)

SpecJob == InitJob /\ [][NextJob]_vars

\* Starlette runs a scheduled background task once the response is sent, and
\* a request in progress is carried on
SpecJobLive ==
    /\ SpecJob
    /\ WF_vars(BgStep)
    /\ WF_vars(\E r \in Requests, ok \in BOOLEAN :
                   StartDiscoveryFastPath(r, ok) \/ StartDiscoverySlowPath(r, ok))

(***************************************************************************)
(* Claims about the discovery jobs and the orchestrator.                   *)
(***************************************************************************)
TerminalStatuses == {"completed", "failed"}

\* C1: once a job's status is completed or failed, no later operation on the
\* job changes its status; it never returns to processing.
C1_TerminalStatusIsFinal ==
    [][\A j \in Requests :
           discovery_jobs[j].status \in TerminalStatuses
               => discovery_jobs'[j].status = discovery_jobs[j].status]_vars

\* C2: every job created on the slow path eventually reaches completed or
\* failed, given that its scheduled background run is executed.
C2_JobEventuallyTerminal ==
    \A j \in Requests :
        discovery_jobs[j].exists ~> discovery_jobs[j].status \in TerminalStatuses

\* C3: the step that ends run_background_discovery leaves the job completed
\* with scholarships_found equal to the number of matched opportunities the
\* run persisted, or, if a step of the pipeline raised, failed with 0.
C3_RunEndsInMatchingRecord ==
    [][\A j \in Requests :
           (bgPc[j] # "ended" /\ bgPc'[j] = "ended")
               => /\ bgOutcome'[j] = "stored"
                      => /\ discovery_jobs'[j].status = "completed"
                         /\ discovery_jobs'[j].scholarships_found = bgSaved'[j]
                  /\ bgOutcome'[j] = "raised"
                      => /\ discovery_jobs'[j].status = "failed"
                         /\ discovery_jobs'[j].scholarships_found = 0]_vars

\* the cached set request r read: documents are only ever added behind it
CachedAsRead(r) == SubSeq(scholarships, 1, reqCacheSize[r])

\* the score of a stored opportunity for the caller of request r
ScoreFor(r, opp) == calculate_match_score(OpportunityOfKind(opp.kind), ProfileOf(reqUser[r]))

\* the positions of the cached set that score above 0 for the caller of r
Eligible(r) == {i \in 1..reqCacheSize[r] : ScoreFor(r, CachedAsRead(r)[i]) > 0}

TopRanked(r) ==
    LET res == response[r].immediate_results
        cached == CachedAsRead(r)
    IN /\ Len(res) <= MaxImmediateResults
       /\ Len(res) = IF Cardinality(Eligible(r)) < MaxImmediateResults
                     THEN Cardinality(Eligible(r)) ELSE MaxImmediateResults
       /\ response[r].total_found = Cardinality(Eligible(r))
       /\ \A i \in 1..Len(res) :
              \E k \in Eligible(r) : /\ cached[k].id = res[i].id
                                     /\ res[i].match_score = ScoreFor(r, cached[k])
       /\ \A i, k \in 1..Len(res) : i # k => res[i].id # res[k].id
       /\ \A i \in 1..(Len(res) - 1) : res[i].match_score >= res[i + 1].match_score
       /\ \A k \in Eligible(r) :
              (\A i \in 1..Len(res) : res[i].id # cached[k].id)
                  => \A i \in 1..Len(res) : res[i].match_score >= ScoreFor(r, cached[k])

JobCount(jobs) == Cardinality({j \in Requests : jobs[j].exists})

\* C5: when the cache is empty, start_discovery_job creates exactly one job
\* record (processing, progress 0, scholarships_found 0) before it returns,
\* the response is processing with that job's id and no immediate results,
\* the background run is scheduled exactly once for that id, and no run has
\* started before its response is returned.
C5_EmptyCacheCreatesOneJob ==
    /\ [](\A r \in Requests :
             /\ (reqPc[r] = "returned" /\ reqCacheSize[r] = 0)
                    => /\ response[r].status = "processing"
                       /\ response[r].job_id = r
                       /\ response[r].immediate_results = <<>>
                       /\ discovery_jobs[r].exists
                       /\ scheduled[r] = 1
             /\ reqPc[r] # "returned" => (bgPc[r] = "idle" /\ scheduled[r] = 0))
    /\ [][\A r \in Requests :
             (reqPc[r] # "returned" /\ reqPc'[r] = "returned" /\ reqCacheSize[r] = 0)
                 => /\ discovery_jobs'[r] = [exists |-> TRUE, user_id |-> reqUser[r],
                                             status |-> "processing", progress |-> 0,
                                             scholarships_found |-> 0]
                    /\ JobCount(discovery_jobs') = JobCount(discovery_jobs) + 1
                    /\ bgPc'[r] = "scheduled"]_vars

\* a request that read an empty cache and returned processing
C5_Witness ==
    \E r \in Requests :
        /\ reqPc[r] = "returned"
        /\ reqCacheSize[r] = 0
        /\ response[r].status = "processing"
        /\ bgPc[r] = "ended"

(***************************************************************************)
(* Claims about the aggregator's handling of failing and slow adapters.    *)
(***************************************************************************)
\* the adapters whose scrape() returned a list in this run
ReturnedList == {a \in Scrapers : results[a].kind = "list"}

\* C11: if any subset of adapters raises, the aggregator still returns, and
\* what it returns (once all five tasks have ended, by return or by raise)
\* is the deduplicated results of every adapter that returned a list: every
\* key such an adapter returned is represented, every entry comes from such
\* an adapter, and no key occurs twice.
C11_AdapterFailureNeverFailsBatch ==
    aggPc = "done" =>
           /\ Len(finishOrder) = Len(ScraperNames)
           /\ \A a \in ReturnedList : \A i \in 1..Len(results[a].items) :
                  PositionsOf(aggUnique, ClaimKey(results[a].items[i])) # {}
           /\ \A j \in 1..Len(aggUnique) :
                  \E a \in ReturnedList : \E i \in 1..Len(results[a].items) :
                      results[a].items[i] = aggUnique[j]
           /\ \A i, j \in 1..Len(aggUnique) :
                  i # j => ClaimKey(aggUnique[i]) # ClaimKey(aggUnique[j])

\* a run in which three adapters raised and the others' results were delivered
C11_Witness ==
    /\ aggPc = "done"
    /\ Cardinality(Scrapers \ ReturnedList) = 3
    /\ results["Devpost"].kind = "raised"
    /\ Len(aggUnique) >= 2

\* C12: one slow source does not block the batch: when every adapter but
\* one has returned, the aggregator can deliver the results of those that
\* finished, without waiting for the last one.
C12_SlowSourceDoesNotBlock ==
    (/\ aggPc = "gathering"
     /\ \E slow \in Scrapers :
            /\ results[slow] = Pending
            /\ \A a \in Scrapers \ {slow} : results[a] # Pending)
        => ENABLED Aggregate

(***************************************************************************)
(* BaseScraper._fetch_with_retry (base_scraper.py 62-144): one step per    *)
(* round of its loop.  Durations are in half seconds.                      *)
(***************************************************************************)
\* self.max_retries
max_retries == 3
\* self.rate_limit = 1.5 seconds, slept after every response
rate_limit == 3
\* response.headers.get('Retry-After', 60): the default, 60 seconds
DefaultRetryAfter == 120
\* the sleep of the "except Exception" clause: 2 seconds
UnexpectedErrorSleep == 4
\* longest Retry-After a server sends, in seconds
MaxRetryAfterSeconds == 2

\* random.uniform(0, 1): 0 or 0.5 seconds
Jitters == {0, 1}

\* what one request can end in: a response by status class, or an exception
\* of client.get / client.post
Outcomes == {"ok", "http_error", "429", "timeout", "connect_error", "unexpected"}

\* the Retry-After header of a 429 response: absent, a number of seconds, or
\* text int() does not accept (an HTTP date)
RetryAfterHeaders ==
    {[kind |-> "absent", seconds |-> 0], [kind |-> "date", seconds |-> 0]}
        \cup {[kind |-> "seconds", seconds |-> n] : n \in 0..MaxRetryAfterSeconds}

NoHeader == [kind |-> "absent", seconds |-> 0]

RECURSIVE Pow2(_)
Pow2(n) == IF n = 0 THEN 1 ELSE 2 * Pow2(n - 1)

\* mutant: the fixed 2 seconds of the "except Exception" clause
BackoffFixed(a, jitter) == UnexpectedErrorSleep

\* backoff = (2 ** attempt) + random.uniform(0, 1)
Backoff(a, jitter) == 2 * Pow2(a) + jitter

\* int(response.headers.get('Retry-After', 60)), for a header int() accepts
RetryAfter(header) ==
    IF header.kind = "seconds" THEN 2 * header.seconds ELSE DefaultRetryAfter

\* one entry of the log: the attempt, how it ended, and what was slept after
\* it: the request spacing, then the retry logic's own sleep
LogEntry(a, outcome, header, spacing, slept, why) ==
    [attempt |-> a, outcome |-> outcome, header |-> header, spacing |-> spacing,
     slept |-> slept, why |-> why]

InitFetch ==
    /\ fetchPc = "running"
    /\ attempt = 0
    /\ fetchLog = <<>>
    /\ fetchResult = "none"
    /\ DedupIdle /\ AggIdle /\ RateIdle /\ JobIdle
    /\ ScrapeIdle /\ ClientIdle /\ RunIdle /\ ScoreIdle /\ LaterIdle

\* the round returns: the loop is left with a response or with None
FetchReturn(entry, result) ==
    /\ fetchLog' = Append(fetchLog, entry)
    /\ fetchResult' = result
    /\ fetchPc' = "returned"
    /\ UNCHANGED attempt

\* the round ends in a sleep: the next round follows, or, after the last
\* round, the "return None" behind the loop
FetchContinue(entry) ==
    /\ fetchLog' = Append(fetchLog, entry)
    /\ attempt' = attempt + 1
    /\ IF attempt + 1 < max_retries
       THEN UNCHANGED <<fetchPc, fetchResult>>
       ELSE fetchPc' = "returned" /\ fetchResult' = "None"

\* a response that is neither 429 nor an error status: spaced, then returned
AttemptOk ==
    /\ fetchPc = "running"
    /\ FetchReturn(LogEntry(attempt, "ok", NoHeader, rate_limit, 0, "none"), "response")
    /\ UNCHANGED outsideFetch

\* a 4xx/5xx response: spaced, raise_for_status raises HTTPStatusError
\* (100-116); a timeout or a connection error: client.get raises
\* RequestError (118-130)
AttemptTransient(outcome, jitter) ==
    /\ fetchPc = "running"
    /\ outcome \in {"http_error", "timeout", "connect_error"}
    /\ LET spacing == IF outcome = "http_error" THEN rate_limit ELSE 0
       IN IF attempt < max_retries - 1
          THEN FetchContinue(LogEntry(attempt, outcome, NoHeader, spacing,
                                      Backoff(attempt, jitter), "backoff"))
          ELSE FetchReturn(LogEntry(attempt, outcome, NoHeader, spacing, 0, "none"), "None")
    /\ UNCHANGED outsideFetch

\* a 429 response (89-98): spaced, then Retry-After seconds slept and the
\* next round; a header int() rejects raises ValueError into the
\* "except Exception" clause (132-142)
Attempt429(header) ==
    /\ fetchPc = "running"
    /\ IF header.kind # "date"
       THEN FetchContinue(LogEntry(attempt, "429", header, rate_limit,
                                   RetryAfter(header), "retry_after"))
       ELSE IF attempt < max_retries - 1
            THEN FetchContinue(LogEntry(attempt, "429", header, rate_limit,
                                        UnexpectedErrorSleep, "unexpected"))
            ELSE FetchReturn(LogEntry(attempt, "429", header, rate_limit, 0, "none"), "None")
    /\ UNCHANGED outsideFetch

\* mutant: _fetch_with_retry without its "except Exception" clause
AttemptUnexpectedUncaught ==
    /\ fetchPc = "running"
    /\ fetchLog' = Append(fetchLog, LogEntry(attempt, "unexpected", NoHeader, 0, 0, "none"))
    /\ fetchPc' = "raised"
    /\ UNCHANGED <<attempt, fetchResult, outsideFetch>>

\* any other exception of the request (132-142)
AttemptUnexpected ==
    /\ fetchPc = "running"
    /\ IF attempt < max_retries - 1
       THEN FetchContinue(LogEntry(attempt, "unexpected", NoHeader, 0,
                                   UnexpectedErrorSleep, "unexpected"))
       ELSE FetchReturn(LogEntry(attempt, "unexpected", NoHeader, 0, 0, "none"), "None")
    /\ UNCHANGED outsideFetch

NextFetch ==
    \/ AttemptOk
    \/ \E outcome \in Outcomes, jitter \in Jitters : AttemptTransient(outcome, jitter)
    \/ \E header \in RetryAfterHeaders : Attempt429(header)
    \/ AttemptUnexpected

SpecFetch == InitFetch /\ [][NextFetch]_vars

\* every sleep of the loop ends and every request ends in one of the
\* outcomes (the client has a timeout): a call in progress goes on
SpecFetchLive == SpecFetch /\ WF_vars(NextFetch)

(***************************************************************************)
(* Claims about the retry logic.                                           *)
(***************************************************************************)
TransientOutcomes == {"http_error", "timeout", "connect_error"}

\* C13: on transient failure (timeout, 5xx, connection error) a fetch is
\* tried at most max_retries times; between consecutive attempts the retry
\* logic sleeps 2^attempt + [0,1) seconds; after the last failed attempt it
\* sleeps no more and gives up with no response.
C13_RetryWithExponentialBackoff ==
    /\ Len(fetchLog) <= max_retries
    /\ \A i \in 1..Len(fetchLog) :
           /\ fetchLog[i].attempt = i - 1
           /\ fetchLog[i].outcome \in TransientOutcomes =>
                  IF i < max_retries
                  THEN /\ fetchLog[i].slept >= 2 * Pow2(i - 1)
                       /\ fetchLog[i].slept < 2 * Pow2(i - 1) + 2
                       /\ fetchPc = "running" \/ Len(fetchLog) > i
                  ELSE /\ fetchLog[i].slept = 0
                       /\ fetchPc = "returned"
                       /\ fetchResult = "None"
    /\ Len(fetchLog) = max_retries => fetchPc = "returned"
    /\ fetchResult = "response" => fetchLog[Len(fetchLog)].outcome = "ok"

\* three transient failures of different kinds in a row, the fetch given up
C13_Witness ==
    /\ fetchPc = "returned"
    /\ fetchResult = "None"
    /\ Len(fetchLog) = max_retries
    /\ fetchLog[1].outcome = "timeout" /\ fetchLog[1].slept = 3
    /\ fetchLog[2].outcome = "http_error" /\ fetchLog[2].slept = 4
    /\ fetchLog[3].outcome = "connect_error"

\* C14: after an HTTP 429 response the fetch waits the seconds the
\* Retry-After header gives when the header is present, and otherwise
\* according to the exponential backoff schedule (2^attempt + [0,1) s).
C14_RetryAfterElseBackoff ==
    \A i \in 1..Len(fetchLog) :
        (fetchLog[i].outcome = "429" /\ fetchLog[i].header.kind # "date") =>
            IF fetchLog[i].header.kind = "seconds"
            THEN fetchLog[i].slept = 2 * fetchLog[i].header.seconds
            ELSE /\ fetchLog[i].slept >= 2 * Pow2(i - 1)
                 /\ fetchLog[i].slept < 2 * Pow2(i - 1) + 2

(***************************************************************************)
(* One call of an adapter's scrape().  Each page is one call of            *)
(* _fetch_with_retry, which yields a 200 response, another response that   *)
(* raise_for_status lets pass, or None once the retries are used up, or    *)
(* raises before its loop (_get_client, _get_headers), and the parsing of  *)
(* the page, which keeps every item, skips the items whose parsing raises  *)
(* inside the per-item try, or raises outside of it (BeautifulSoup,        *)
(* find_all).                                                              *)
(***************************************************************************)
FetchOutcomes == {"ok200", "okOther", "None", "raise"}
ParseOutcomes == {"all", "partial", "raise"}

\* the pages scrape() fetches: Devpost's two status pages, the two sites of
\* the Scholarships adapter, one page for the others
Pages(a) == IF a \in {"Devpost", "Scholarships"} THEN 2 ELSE 1

\* the opportunities parsed from page k
PageItems(a, k, parse) ==
    IF parse = "all"
    THEN << [source |-> a, page |-> k, item |-> 1], [source |-> a, page |-> k, item |-> 2] >>
    ELSE << [source |-> a, page |-> k, item |-> 1] >>

\* _generate_mlh_fallback, _generate_fallback_competitions
Fallback(a) == << [source |-> a, page |-> 0, item |-> 1] >>

\* what the statements inside the try of page k yield: the list to add to
\* "opportunities", or an exception
PageBody(a, k, fetch, parse) ==
    CASE a # "Gitcoin" /\ fetch = "raise" -> Raised
      [] a = "Devpost" ->
           IF fetch = "None" THEN Returned(<<>>)
           ELSE IF parse = "raise" THEN Raised
           ELSE Returned(PageItems(a, k, parse))
      [] a = "Scholarships" ->
           IF fetch # "ok200" THEN Returned(<<>>)
           ELSE IF parse = "raise" THEN Raised
           ELSE Returned(PageItems(a, k, parse))
      [] a = "MLH" ->
           IF fetch # "ok200" THEN Returned(Fallback(a))
           ELSE IF parse = "raise" THEN Raised
           ELSE Returned(PageItems(a, k, parse))
      [] a = "Kaggle" ->
           IF fetch # "ok200" THEN Returned(<<>>)
           ELSE IF parse = "raise" THEN Raised
           ELSE Returned(PageItems(a, k, parse))
      [] OTHER -> Returned(<<>>)

\* "opportunities" after the except clause of the adapter
OnError(a, opps) == IF a = "MLH" THEN Fallback(a) ELSE opps

\* mutant: the page without its try/except
Unguarded(a, opps, body) ==
    IF body.kind = "raised" THEN Raised ELSE Returned(opps \o body.items)

\* try: <page> except Exception: log (and, for MLH, fall back)
Guarded(a, opps, body) ==
    IF body.kind = "raised" THEN Returned(OnError(a, opps)) ELSE Returned(opps \o body.items)

\* the statements after the last page: Kaggle always adds its fallback set
Finish(a, opps) == IF a = "Kaggle" THEN opps \o Fallback(a) ELSE opps

InitScrape ==
    /\ scrapeAdapter \in Scrapers
    /\ scrapePage = 0
    /\ scrapeLog = <<>>
    /\ scrapeOpps = <<>>
    /\ scrapeResult = Pending
    /\ DedupIdle /\ AggIdle /\ RateIdle /\ JobIdle
    /\ FetchIdle /\ ClientIdle /\ RunIdle /\ ScoreIdle /\ LaterIdle

\* the next page of scrape(), and its return after the last one
ScrapePage(fetch, parse) ==
    /\ scrapeAdapter # "none"
    /\ scrapeResult = Pending
    /\ scrapePage < Pages(scrapeAdapter)
    /\ LET out == Guarded(scrapeAdapter, scrapeOpps,
                          PageBody(scrapeAdapter, scrapePage + 1, fetch, parse))
       IN IF out.kind = "raised"
          THEN /\ scrapeResult' = Raised
               /\ UNCHANGED scrapeOpps
          ELSE /\ scrapeOpps' = out.items
               /\ scrapeResult' =
                      IF scrapePage + 1 = Pages(scrapeAdapter)
                      THEN Returned(Finish(scrapeAdapter, out.items))
                      ELSE Pending
    /\ scrapePage' = scrapePage + 1
    /\ scrapeLog' = Append(scrapeLog, [fetch |-> fetch, parse |-> parse])
    /\ UNCHANGED <<scrapeAdapter, outsideScrape>>

NextScrape == \E fetch \in FetchOutcomes, parse \in ParseOutcomes : ScrapePage(fetch, parse)

SpecScrape == InitScrape /\ [][NextScrape]_vars

\* C15: whatever the fetches and the parsing of its pages do, scrape() of
\* every adapter ends by returning a list and never with an exception; the
\* list of MLH is its fallback set when the page was not served or its
\* parsing raised, and the list of Kaggle always ends with its fallback set
C15_ScrapeNeverRaises ==
    scrapeAdapter # "none" =>
        /\ scrapeResult.kind # "raised"
        /\ scrapePage = Pages(scrapeAdapter) =>
              /\ scrapeResult.kind = "list"
              /\ scrapeAdapter = "MLH"
                 /\ (scrapeLog[1].fetch # "ok200" \/ scrapeLog[1].parse = "raise")
                 => scrapeResult.items = Fallback("MLH")
              /\ scrapeAdapter = "Kaggle" =>
                    /\ scrapeResult.items # <<>>
                    /\ scrapeResult.items[Len(scrapeResult.items)] = Fallback("Kaggle")[1]

\* Devpost returned a partial list: the parsing of one page raised, the other page's items are kept
C15_Witness ==
    /\ scrapeAdapter = "Devpost"
    /\ scrapeResult.kind = "list"
    /\ Len(scrapeLog) = 2
    /\ scrapeLog[1].fetch = "ok200" /\ scrapeLog[1].parse = "raise"
    /\ scrapeLog[2].fetch = "ok200" /\ scrapeLog[2].parse = "partial"
    /\ Len(scrapeResult.items) = 1

(***************************************************************************)
(* The adapters' HTTP clients.  scraper_service is one module-level        *)
(* object holding one instance of each adapter; every discovery run and    *)
(* the scheduled refresh call discover_all_opportunities on it, so two     *)
(* runs that overlap invoke scrape() on the same five instances.  An       *)
(* invocation is a pair <<run, adapter>>.                                  *)
(***************************************************************************)
\* two runs that overlap: two discovery runs, or a discovery run and the refresh
ClientRuns == {"run1", "run2"}
Invocations == ClientRuns \X Scrapers

\* the field self.client of the instance of adapter a
ClientField(a) == <<a, "client">>

\* one access of a field by an invocation
Access(r, a, op) == [inv |-> <<r, a>>, field |-> ClientField(a), op |-> op]

InitClient ==
    /\ client = [a \in Scrapers |-> "none"]
    /\ invPc = [i \in Invocations |-> "idle"]
    /\ accesses = {}
    /\ DedupIdle /\ AggIdle /\ RateIdle /\ JobIdle
    /\ FetchIdle /\ ScrapeIdle /\ RunIdle /\ ScoreIdle /\ LaterIdle

\* scrape() of adapter a in run r reaches _fetch_with_retry: _get_client reads
\* self.client, creates and stores the client when there is none, and the
\* request is sent on it
GetClient(r, a) ==
    /\ invPc[<<r, a>>] = "idle"
    /\ accesses' = accesses \cup {Access(r, a, "read")}
                     \cup (IF client[a] = "none" THEN {Access(r, a, "write")} ELSE {})
    /\ client' = [client EXCEPT ![a] = "open"]
    /\ invPc' = [invPc EXCEPT ![<<r, a>>] = "fetching"]
    /\ UNCHANGED outsideClient

\* scrape() returns; _close_client is never called, the client stays open
ScrapeReturns(r, a) ==
    /\ invPc[<<r, a>>] = "fetching"
    /\ invPc' = [invPc EXCEPT ![<<r, a>>] = "done"]
    /\ UNCHANGED <<client, accesses, outsideClient>>

NextClient ==
    \/ \E r \in ClientRuns, a \in Scrapers : GetClient(r, a)
    \/ \E r \in ClientRuns, a \in Scrapers : ScrapeReturns(r, a)

SpecClient == InitClient /\ [][NextClient]_vars

\* C16: two invocations of adapters that are under way at the same time
\* (the adapters of one run, or the same adapter in two overlapping runs)
\* have not read or written a common field
C16_NoCommonMutableState ==
    \A x \in accesses, y \in accesses :
        /\ x.inv # y.inv
        /\ invPc[x.inv] = "fetching"
        /\ invPc[y.inv] = "fetching"
        => x.field # y.field

(***************************************************************************)
(* One background run, from the call of discover_all_opportunities to the  *)
(* ranking: run_background_discovery awaits the aggregator (the actions    *)
(* ScraperFinish and Aggregate above), then converts the raw opportunities *)
(* one by one, then scores and ranks what the conversion kept.             *)
(***************************************************************************)
\* what the sources of a run yield: an exception, or two opportunities
RunOutcomes(a) ==
    { Raised,
      Returned(<<[name |-> OtherName(a), organization |-> <<"f">>, url |-> a],
                 [name |-> SharedName(a), organization |-> SharedOrganization(a), url |-> a]>>) }

InitRun ==
    /\ scraperOut \in {f \in [Scrapers -> UNION {RunOutcomes(a) : a \in Scrapers}] :
                          \A a \in Scrapers : f[a] \in RunOutcomes(a)}
    /\ results = [a \in Scrapers |-> Pending]
    /\ finishOrder = <<>>
    /\ aggPc = "gathering"
    /\ aggUnique = <<>>
    /\ prevUnique = <<>>
    /\ runNo = 1
    /\ runPc = "scraping"
    /\ runConverted = <<>>
    /\ DedupIdle /\ RateIdle /\ JobIdle
    /\ FetchIdle /\ ScrapeIdle /\ ClientIdle /\ ScoreIdle /\ LaterIdle

\* mutant: the raw opportunities are taken up as soon as one adapter has ended
RawReturnedEarly == \E a \in Scrapers : results[a] # Pending

\* "raw_opportunities = await scraper_service.discover_all_opportunities(...)"
\* has returned
RawReturned == aggPc = "done"

\* how the statements inside the try of convert_to_scholarship end: the
\* Scholarship is built, or something raises (a missing or ill-typed field,
\* a value the Scholarship model rejects)
ConvertBodies == {"built", "raised"}

\* mutant: convert_to_scholarship without its try/except
convert_to_scholarship_unguarded(body) == IF body = "raised" THEN "raised" ELSE "scholarship"

\* convert_to_scholarship: the Scholarship, or None when anything was raised
convert_to_scholarship(body) == IF body = "raised" THEN "None" ELSE "scholarship"

\* one round of the conversion loop: a Scholarship is appended to
\* "opportunities"; None is skipped, and so is an exception, which the loop's
\* own try/except logs
ConvertOne(body) ==
    /\ runPc \in {"scraping", "converting"}
    /\ RawReturned
    /\ Len(runConverted) < Len(aggUnique)
    /\ runConverted' = Append(runConverted,
                              [raw |-> aggUnique[Len(runConverted) + 1],
                               body |-> body,
                               result |-> convert_to_scholarship(body),
                               kept |-> convert_to_scholarship(body) = "scholarship"])
    /\ runPc' = "converting"
    /\ UNCHANGED <<varsAgg, outsideRun>>

\* the loop is over: _filter_and_rank scores what was kept
Rank ==
    /\ runPc \in {"scraping", "converting"}
    /\ RawReturned
    /\ Len(runConverted) = Len(aggUnique)
    /\ runPc' = "ranked"
    /\ UNCHANGED <<runConverted, varsAgg, outsideRun>>

NextRun ==
    \/ \E a \in Scrapers : ScraperFinish(a)
    \/ Aggregate
    \/ \E body \in ConvertBodies : ConvertOne(body)
    \/ Rank

SpecRun == InitRun /\ [][NextRun]_vars

\* C17: once the run has converted or scored anything, every adapter task
\* has ended, the aggregator has deduplicated their results, and what was
\* converted is that deduplicated list, in its order
C17_ConvertAfterAggregation ==
    (runConverted # <<>> \/ runPc \in {"converting", "ranked"}) =>
        /\ aggPc = "done"
        /\ \A a \in Scrapers : results[a] # Pending
        /\ aggUnique = _deduplicate(ExtendAll(Gather(results, finishOrder), 1, <<>>))
        /\ Len(runConverted) <= Len(aggUnique)
        /\ \A i \in 1..Len(runConverted) : runConverted[i].raw = aggUnique[i]

\* a run ranked two converted opportunities although one adapter raised and
\* the adapters ended in another order than they were started
C17_Witness ==
    /\ runPc = "ranked"
    /\ Len(runConverted) >= 2
    /\ finishOrder[1] = "Scholarships"
    /\ results["Devpost"] = Raised

(***************************************************************************)
(* Claims about the scores handed to users (checked in SpecJob).           *)
(***************************************************************************)
\* the stored document with the given id
StoredDoc(id) == scholarships[CHOOSE i \in 1..Len(scholarships) : scholarships[i].id = id]

\* FirebaseDB.get_user_matched_scholarships, what GET /matched returns: the
\* stored documents of the user's match list, as stored
get_user_matched_scholarships(u) ==
    IF ~user_matches[u].exists
    THEN <<>>
    ELSE LET ids == SelectSeq(user_matches[u].scholarship_ids,
                              LAMBDA id : \E i \in 1..Len(scholarships) :
                                              scholarships[i].id = id)
         IN [i \in 1..Len(ids) |-> StoredDoc(ids[i])]

\* the score of a stored opportunity for the profile of user u
ScoreForUser(opp, u) == calculate_match_score(OpportunityOfKind(opp.kind), ProfileOf(u))

\* C18: every score in a response's immediate results, and every score of a
\* document stored by a run and read back through a user's match list, is
\* the score of that opportunity for that user's own profile
C18_ScoresAreTheUsersOwn ==
    /\ \A r \in Requests :
          \A i \in 1..Len(response[r].immediate_results) :
              response[r].immediate_results[i].match_score =
                  ScoreForUser(response[r].immediate_results[i], reqUser[r])
    /\ \A u \in Users :
          \A i \in 1..Len(get_user_matched_scholarships(u)) :
              get_user_matched_scholarships(u)[i].id > BigCacheSize =>
                  get_user_matched_scholarships(u)[i].match_score =
                      ScoreForUser(get_user_matched_scholarships(u)[i], u)

(***************************************************************************)
(* The scoring functions on drawn inputs: the scoring engine of            *)
(* matching_service.py (calculate_match_score, the tiers and the filter of *)
(* _filter_and_rank) and the converter of opportunity_converter.py, whose  *)
(* score and tier are what the scheduled refresh persists.  Scores are in  *)
(* hundredths of a point.                                                  *)
(***************************************************************************)
\* the ways an application can be laborious: essay, prompts, letters, transcript, resume
Efforts ==
    { [essay |-> FALSE, essay_prompts |-> 0, recommendation_letters |-> 0,
       transcript |-> FALSE, resume |-> FALSE],
      [essay |-> TRUE, essay_prompts |-> 1, recommendation_letters |-> 0,
       transcript |-> FALSE, resume |-> TRUE],
      [essay |-> TRUE, essay_prompts |-> 2, recommendation_letters |-> 2,
       transcript |-> TRUE, resume |-> FALSE] }

\* deadlines: unparseable, expired, in 3 days, in 20 days
Deadlines ==
    { [deadlineParses |-> FALSE, deadlineDays |-> 0],
      [deadlineParses |-> TRUE, deadlineDays |-> -1],
      [deadlineParses |-> TRUE, deadlineDays |-> 3],
      [deadlineParses |-> TRUE, deadlineDays |-> 20] }

MajorLists ==
    { NoMajors, << <<"C", "S">> >>, << <<"S", "T", "E", "M">> >>, << <<"B", "i", "o">> >> }

TagLists ==
    { <<>>, << <<"A", "I">> >>, << <<"b", "i", "o">> >>,
      << <<"a", "i">>, <<"b", "i", "o">>, <<"c", "s">> >> }

\* an opportunity from its parts
Opportunity(gpa, grades, majors, tags, deadline, amount, effort, type, skills, urgency) ==
    [gpa_min |-> gpa, grades_eligible |-> grades, majors |-> majors, tags |-> tags,
     deadlineParses |-> deadline.deadlineParses, deadlineDays |-> deadline.deadlineDays,
     amount |-> amount,
     essay |-> effort.essay, essay_prompts |-> effort.essay_prompts,
     recommendation_letters |-> effort.recommendation_letters,
     transcript |-> effort.transcript, resume |-> effort.resume,
     type |-> type, skills_needed |-> skills, urgency |-> urgency,
     deadline |-> IF deadline.deadlineParses THEN "iso" ELSE "",
     deadline_type |-> IF deadline.deadlineParses THEN "fixed" ELSE "rolling"]

\* the opportunities drawn to exercise the scoring engine
EngineInputs ==
    { Opportunity(gpa, grades, majors, tags, deadline, amount, effort,
                  "scholarship", <<>>, "future") :
        gpa \in {0, 300, 360, 380},
        grades \in { {}, {"Undergraduate"}, {"High School Senior"} },
        majors \in MajorLists,
        tags \in TagLists,
        deadline \in Deadlines,
        amount \in {0, 3000, 6000, 8000},
        effort \in Efforts }

\* the opportunities drawn to exercise the converter
ConverterInputs ==
    { Opportunity(gpa, {}, majors, <<>>, [deadlineParses |-> FALSE, deadlineDays |-> 0], 0,
                  [essay |-> FALSE, essay_prompts |-> 0, recommendation_letters |-> 0,
                   transcript |-> FALSE, resume |-> FALSE],
                  type, skills, urgency) :
        gpa \in {0, 300, 360, 380},
        majors \in MajorLists,
        type \in {"scholarship", "hackathon"},
        skills \in { <<>>, << <<"A", "I">> >> },
        urgency \in {"future", "this_week", "immediate"} }

\* generic_profile of the scheduled refresh
SystemProfile ==
    [academic_status |-> "undergraduate", gpa |-> 350,
     major |-> <<"C", "o", "m", "p", "u", "t", "e", "r", " ",
                 "S", "c", "i", "e", "n", "c", "e">>,
     interests |-> << <<"T", "e", "c", "h", "n", "o", "l", "o", "g", "y">> >>,
     financial_need |-> 0]

\* the profile and the opportunity of the end-to-end scenario
ScenarioProfile ==
    [academic_status |-> "Undergraduate", gpa |-> 350,
     major |-> <<"C", "o", "m", "p", "u", "t", "e", "r", " ",
                 "S", "c", "i", "e", "n", "c", "e">>,
     interests |-> << <<"A", "I">> >>,
     financial_need |-> 10000]
ScenarioOpportunity ==
    Opportunity(300, {"Undergraduate"}, NoMajors, << <<"A", "I">>, <<"S", "T", "E", "M">> >>,
                [deadlineParses |-> TRUE, deadlineDays |-> 20], 8000,
                [essay |-> FALSE, essay_prompts |-> 0, recommendation_letters |-> 0,
                 transcript |-> FALSE, resume |-> FALSE],
                "scholarship", <<>>, "future")

Profiles == {ProfileOf(u) : u \in Users} \cup {SystemProfile, ScenarioProfile}

\* the words of the converter's STEM test
StemWords ==
    { <<"C", "o", "m", "p", "u", "t", "e", "r">>,
      <<"E", "n", "g", "i", "n", "e", "e", "r", "i", "n", "g">>,
      <<"S", "c", "i", "e", "n", "c", "e">>,
      <<"M", "a", "t", "h">> }

\* opportunity_converter.calculate_match_score, in points
ConverterScore(opp, profile) ==
    LET gpaPoints ==
            IF opp.gpa_min # 0 /\ profile.gpa # 0
            THEN IF profile.gpa >= opp.gpa_min THEN 15
                 ELSE IF profile.gpa >= opp.gpa_min - 20 THEN 5
                 ELSE 0
            ELSE 0
        majorPoints ==
            IF Len(opp.majors) > 0 /\ Len(profile.major) > 0
            THEN IF \E i \in 1..Len(opp.majors) :
                        IsSubstring(Lower(opp.majors[i]), Lower(profile.major))
                 THEN 20
                 ELSE IF /\ \E i \in 1..Len(opp.majors) : opp.majors[i] = <<"S", "T", "E", "M">>
                         /\ \E w \in StemWords : IsSubstring(w, profile.major)
                      THEN 15
                      ELSE 0
            ELSE IF Len(opp.majors) = 0 THEN 10 ELSE 0
        skillPoints ==
            IF /\ opp.type \in {"hackathon", "bounty"}
               /\ Len(opp.skills_needed) > 0
               /\ Len(profile.interests) > 0
               /\ \E i \in 1..Len(opp.skills_needed), j \in 1..Len(profile.interests) :
                      IsSubstring(Lower(profile.interests[j]), Lower(opp.skills_needed[i]))
            THEN 20 ELSE 0
        urgencyPoints ==
            IF opp.urgency = "immediate" THEN 10
            ELSE IF opp.urgency = "this_week" THEN 5
            ELSE 0
        score == 60 + gpaPoints + majorPoints + skillPoints + urgencyPoints
    IN IF score < 99 THEN score ELSE 99

\* opportunity_converter.determine_match_tier, on points
determine_match_tier(score) ==
    IF score >= 85 THEN "Excellent"
    ELSE IF score >= 70 THEN "Good"
    ELSE IF score >= 55 THEN "Fair"
    ELSE "Poor"

\* raw records drawn to exercise the converter's priority, expected value and
\* deadline type: the raw deadline is None, empty, a text that is no date, or
\* an ISO date 1, 3 or 20 days away; the raw deadline_type and urgency are
\* what the adapter wrote, whatever the deadline
RawDeadlines ==
    { [text |-> "None", deadlineParses |-> FALSE, deadlineDays |-> 0],
      [text |-> "", deadlineParses |-> FALSE, deadlineDays |-> 0],
      [text |-> "TBD", deadlineParses |-> FALSE, deadlineDays |-> 0],
      [text |-> "iso", deadlineParses |-> TRUE, deadlineDays |-> 1],
      [text |-> "iso", deadlineParses |-> TRUE, deadlineDays |-> 3],
      [text |-> "iso", deadlineParses |-> TRUE, deadlineDays |-> 20] }

RawInputs ==
    { [Opportunity(gpa, {}, majors, <<>>, deadline, amount,
                   [essay |-> FALSE, essay_prompts |-> 0, recommendation_letters |-> 0,
                    transcript |-> FALSE, resume |-> FALSE],
                   "scholarship", <<>>, urgency)
         EXCEPT !.deadline = deadline.text, !.deadline_type = deadline_type] :
        gpa \in {0, 300},
        majors \in {NoMajors, << <<"B", "i", "o">> >>},
        deadline \in RawDeadlines,
        amount \in {0, 6000, 12000},
        urgency \in {"future", "this_week", "immediate"},
        deadline_type \in {"fixed", "Rolling", "rolling"} }

\* opportunity_converter.determine_priority, on the raw record and a score in points
determine_priority(opp, match_score) ==
    IF opp.urgency = "immediate" /\ match_score >= 70 THEN "URGENT"
    ELSE IF opp.urgency \in {"this_week", "immediate"} \/ opp.amount >= 10000 THEN "HIGH"
    ELSE IF opp.amount >= 5000 \/ match_score >= 80 THEN "MEDIUM"
    ELSE "LOW"

\* _to_str(raw_deadline, ""): None becomes the empty string
ConvertedDeadline(opp) == IF opp.deadline = "None" THEN "" ELSE opp.deadline

\* (opp_data.get("deadline_type") or "").lower()
RawDeadlineTypeLower(opp) == IF opp.deadline_type = "Rolling" THEN "rolling" ELSE opp.deadline_type

\* deadline_type of the converted opportunity
ConvertedDeadlineType(opp) ==
    IF ConvertedDeadline(opp) = "" \/ RawDeadlineTypeLower(opp) = "rolling"
    THEN "rolling" ELSE "fixed"

\* the fields of the Scholarship convert_to_scholarship builds that depend on
\* the score or the deadline; expected_value is in cents
Converted(opp, profile) ==
    [match_score |-> 100 * ConverterScore(opp, profile),
     match_tier |-> determine_match_tier(ConverterScore(opp, profile)),
     priority_level |-> determine_priority(opp, ConverterScore(opp, profile)),
     expected_value |-> opp.amount * ConverterScore(opp, profile),
     deadline |-> ConvertedDeadline(opp),
     deadline_type |-> ConvertedDeadlineType(opp)]

NoScore == [match_score |-> -1, match_tier |-> "none", priority_level |-> "none",
            expected_value |-> 0, deadline |-> "", deadline_type |-> "none"]

InitScore ==
    /\ scoreOpp \in EngineInputs \cup ConverterInputs \cup RawInputs \cup {ScenarioOpportunity}
    /\ scoreProfile \in Profiles
    /\ scorePc = "input"
    /\ scoreOut = NoScore
    /\ rankOut = <<>>
    /\ convOut = NoScore
    /\ DedupIdle /\ AggIdle /\ RateIdle /\ JobIdle
    /\ FetchIdle /\ ScrapeIdle /\ ClientIdle /\ RunIdle /\ LaterIdle

\* convert_to_scholarship: the converter's own score and tier, and the fields
\* it derives from them
Convert ==
    /\ scorePc = "input"
    /\ convOut' = Converted(scoreOpp, scoreProfile)
    /\ scorePc' = "converted"
    /\ UNCHANGED <<scoreOpp, scoreProfile, scoreOut, rankOut, outsideScore>>

\* _filter_and_rank on a list holding the opportunity, read from the cache
\* or just converted: the loop assigns match_score and match_tier on the
\* object and leaves its other fields as they are; and the ranked list
Score ==
    /\ scorePc \in {"input", "converted"}
    /\ scoreOut' = [convOut EXCEPT
                       !.match_score = calculate_match_score(scoreOpp, scoreProfile),
                       !.match_tier = MatchTier(calculate_match_score(scoreOpp, scoreProfile))]
    /\ rankOut' = _filter_and_rank(<<Stored(1, "rolling_bounty"), Stored(2, "drawn")>>,
                                   scoreProfile)
    /\ scorePc' = "scored"
    /\ UNCHANGED <<scoreOpp, scoreProfile, convOut, outsideScore>>

NextScore == Convert \/ Score

SpecScore == InitScore /\ [][NextScore]_vars

(***************************************************************************)
(* Claims about the scoring functions (checked in SpecScore).              *)
(***************************************************************************)
\* the score is within 0..100 and the tier is the one the boundaries 85, 70, 50 give
TierMatches(x) ==
    /\ 0 <= x.match_score /\ x.match_score <= 10000
    /\ (x.match_tier = "Excellent") <=> (x.match_score >= 8500)
    /\ (x.match_tier = "Good") <=> (7000 <= x.match_score /\ x.match_score < 8500)
    /\ (x.match_tier = "Fair") <=> (5000 <= x.match_score /\ x.match_score < 7000)
    /\ (x.match_tier = "Poor") <=> (x.match_score < 5000)

\* C19: every opportunity the scoring engine has scored or ranked, and every
\* opportunity the converter has scored, has a score from 0 to 100 and the
\* tier the boundaries 85 / 70 / 50 assign to that score
C19_ScoreRangeAndTier ==
    /\ scorePc = "scored" =>
          /\ TierMatches(scoreOut)
          /\ \A i \in 1..Len(rankOut) : TierMatches(rankOut[i])
    /\ (scorePc \in {"converted", "scored"} /\ convOut.match_tier # "none") =>
          TierMatches(convOut)

\* an opportunity that the engine scores exactly 50 and that the converter scored 60
C19_Witness ==
    /\ scorePc = "scored"
    /\ scoreOut.match_score = 5000 /\ scoreOut.match_tier = "Fair"
    /\ convOut.match_score = 6000 /\ convOut.match_tier = "Fair"
    /\ \E i \in 1..Len(rankOut) : rankOut[i].kind = "drawn" /\ rankOut[i].match_tier = "Fair"

\* the profile's academic_status is not among the grade levels the opportunity lists
GradeMismatch ==
    /\ scoreOpp.grades_eligible # {}
    /\ scoreProfile.academic_status \notin scoreOpp.grades_eligible

GpaShortfallOnly ==
    /\ scoreOpp.gpa_min # 0 /\ scoreProfile.gpa # 0
    /\ scoreProfile.gpa < scoreOpp.gpa_min
    /\ ~GradeMismatch
    /\ \/ Len(scoreOpp.majors) = 0
       \/ Len(scoreProfile.major) = 0
       \/ \E i \in 1..Len(scoreOpp.majors) :
              IsSubstring(Lower(scoreOpp.majors[i]), Lower(scoreProfile.major))

\* C21: with a GPA shortfall and nothing else amiss the eligibility
\* component is 0.3, the score is above 0 and the opportunity is ranked
C21_GpaShortfallNotExcluded ==
    scorePc = "scored" /\ GpaShortfallOnly =>
        /\ _score_eligibility(scoreOpp, scoreProfile) = 30
        /\ scoreOut.match_score > 0
        /\ \E i \in 1..Len(rankOut) : rankOut[i].kind = "drawn"

\* the end-to-end scenario has been scored
ScenarioScored ==
    /\ scorePc = "scored"
    /\ scoreOpp = ScenarioOpportunity
    /\ scoreProfile = ScenarioProfile

\* C22 as stated: the scenario's aggregate is in the low 90s (90 up to 95) and its tier is Excellent
C22_ScenarioLowNineties ==
    ScenarioScored =>
        /\ 9000 <= scoreOut.match_score /\ scoreOut.match_score < 9500
        /\ scoreOut.match_tier = "Excellent"

\* C22 amended: the scenario's aggregate is 87.5 (30 + 12.5 + 20 + 15 + 10)
\* and its tier is Excellent
C22_ScenarioScore ==
    ScenarioScored =>
        /\ scoreOut.match_score = 8750
        /\ scoreOut.match_tier = "Excellent"
        /\ rankOut # <<>> /\ rankOut[1].kind = "drawn"

C22_Witness ==
    /\ ScenarioScored
    /\ _score_eligibility(scoreOpp, scoreProfile) = 100
    /\ InterestPoints(scoreOpp, scoreProfile) = 1250
    /\ _score_value(scoreOpp, scoreProfile) = 100

(***************************************************************************)
(* Claims about the fields the converter derives (checked in SpecScore).   *)
(* A converted opportunity is persisted as the converter built it          *)
(* (scheduled refresh) or after _filter_and_rank re-scored it (discovery   *)
(* run).                                                                   *)
(***************************************************************************)
\* the deadline is a date at most n days ahead
DeadlineWithin(opp, n) == opp.deadlineParses /\ 0 <= opp.deadlineDays /\ opp.deadlineDays <= n

\* the priority rule, on a score in hundredths of a point
PriorityRule(opp, score) ==
    IF DeadlineWithin(opp, 2) /\ score >= 7000 THEN "URGENT"
    ELSE IF DeadlineWithin(opp, 7) \/ opp.amount >= 10000 THEN "HIGH"
    ELSE IF opp.amount >= 5000 \/ score >= 8000 THEN "MEDIUM"
    ELSE "LOW"

\* C23: the priority level of a converted opportunity, as persisted by the
\* refresh or after the engine re-scored it, is the one the rule gives for
\* its deadline, its amount and the match score it carries
C23_PriorityFollowsRule ==
    /\ scorePc = "converted" => convOut.priority_level = PriorityRule(scoreOpp, convOut.match_score)
    /\ (scorePc = "scored" /\ scoreOut.priority_level # "none") =>
          scoreOut.priority_level = PriorityRule(scoreOpp, scoreOut.match_score)

\* C24: a converted opportunity, as persisted by the refresh or after the
\* engine re-scored it, has expected_value = amount * match_score / 100
C24_ExpectedValueMatchesScore ==
    /\ scorePc = "converted" => 100 * convOut.expected_value = scoreOpp.amount * convOut.match_score
    /\ (scorePc = "scored" /\ scoreOut.priority_level # "none") =>
          100 * scoreOut.expected_value = scoreOpp.amount * scoreOut.match_score

\* C25: a converted opportunity has deadline_type rolling exactly when its
\* deadline is the empty string, and fixed otherwise
C25_RollingIffNoDeadline ==
    scorePc = "converted" =>
        /\ convOut.deadline_type \in {"rolling", "fixed"}
        /\ (convOut.deadline_type = "rolling") <=> (convOut.deadline = "")

(***************************************************************************)
(* Claims about conversion failures in a batch (checked in SpecRun).       *)
(***************************************************************************)
\* the list "opportunities" handed to _filter_and_rank
RunOpportunities == SelectSeq(runConverted, LAMBDA e : e.kept)

\* the raw opportunities whose conversion builds a Scholarship, in the order of the batch
RECURSIVE Convertible(_)
Convertible(entries) ==
    IF entries = <<>> THEN <<>>
    ELSE IF Head(entries).body = "built"
         THEN <<Head(entries).raw>> \o Convertible(Tail(entries))
         ELSE Convertible(Tail(entries))

\* C26: the converter yields a Scholarship or None for every raw record and
\* never an exception; a record is kept exactly when its own conversion
\* built a Scholarship, whatever happened to the records before it; and when
\* the run ranks, every record of the batch has been tried and the list it
\* ranks holds every record that could be converted
C26_ConversionFailureSkipsOneRecord ==
    /\ \A i \in 1..Len(runConverted) :
          /\ runConverted[i].result \in {"scholarship", "None"}
          /\ runConverted[i].kept <=> (runConverted[i].body = "built")
    /\ runPc = "ranked" =>
          /\ Len(runConverted) = Len(aggUnique)
          /\ [i \in 1..Len(RunOpportunities) |-> RunOpportunities[i].raw]
                = Convertible(runConverted)

\* the first record of a batch failed conversion, the second was converted and ranked
C26_Witness ==
    /\ runPc = "ranked"
    /\ Len(runConverted) >= 2
    /\ runConverted[1].body = "raised" /\ ~runConverted[1].kept
    /\ runConverted[2].body = "built" /\ runConverted[2].kept
    /\ Len(RunOpportunities) >= 1

(***************************************************************************)
(* Claims about the caller's view of start_discovery_job and about the     *)
(* progress of a job record (checked in SpecJob).                          *)
(***************************************************************************)
\* a DiscoveryJobResponse start_discovery_job builds: completed with
\* immediate results, or processing with the job's handle
WellFormedResponse(r) ==
    \/ /\ response[r].status = "completed"
       /\ response[r].immediate_results # <<>>
    \/ /\ response[r].status = "processing"
       /\ response[r].job_id = r
       /\ discovery_jobs[r].exists

\* C27: a start_discovery_job call never ends by raising to its caller,
\* whichever of its database steps fails, and a call that has ended has
\* returned a well-formed response
C27_StartDiscoveryNeverRaises ==
    \A r \in Requests :
        /\ reqPc[r] # "raised"
        /\ reqPc[r] = "returned" => WellFormedResponse(r)

\* C28: no step lets the progress stored in an existing job record decrease,
\* and the stored progress stays within 0..100
C28_ProgressNeverDecreases ==
    [][\A j \in Requests :
          discovery_jobs[j].exists =>
              /\ discovery_jobs'[j].progress >= discovery_jobs[j].progress
              /\ discovery_jobs'[j].progress \in 0..100]_vars

(***************************************************************************)
(* Claims about the enrichment cache (checked in SpecRate).                *)
(***************************************************************************)
\* the shared store holds an entry for k that was stored less than the TTL ago
FreshInStore(k) ==
    /\ redisConfigured
    /\ redisCache[k].exists
    /\ now - (redisCache[k].expireAt - CacheTtl) < CacheTtl

\* the in-memory cache of p holds an entry for k that was stored less than the TTL ago
FreshInMemory(p, k) ==
    /\ memory_cache[p][k].exists
    /\ now - memory_cache[p][k].expireAt < CacheTtl

\* the step in which a call of p misses the cache and goes on to the rate check
MissStep(p) == pc[p] = "idle" /\ pc'[p] = "check"

\* the step in which a call of p returns a cached entry
HitStep(p) ==
    /\ pc[p] = "idle"
    /\ lastReturn' # lastReturn
    /\ lastReturn'.proc = p
    /\ lastReturn'.value = "cached"

\* C29: a call misses the cache only if the caller's in-memory cache has no
\* entry for the key younger than the TTL and, as long as no call to the
\* shared store has failed, the store has none either; a call that returns
\* a cached entry returns an entry for its key that was stored less than
\* the TTL ago, and it neither reaches the rate check, nor changes a counter
\* of the limiter, nor calls the model (which would write the caches)
C29_FreshEntryShortCircuits ==
    [][\A p \in Procs :
          /\ MissStep(p) =>
                /\ ~FreshInMemory(p, callKey'[p])
                /\ ~storeFailed' => ~FreshInStore(callKey'[p])
          /\ HitStep(p) =>
                /\ \/ /\ FreshInStore(callKey'[p])
                      /\ lastReturn'.entry = redisCache[callKey'[p]].value
                   \/ /\ FreshInMemory(p, callKey'[p])
                      /\ lastReturn'.entry = memory_cache[p][callKey'[p]].value
                /\ pc'[p] = "idle"
                /\ UNCHANGED <<redisCounter, rate_limiter, admittedBy, redisCache,
                               memory_cache>>]_vars

\* a call returned the parsed entry from the cache after two calls had been
\* admitted: the limiter's window is used up and the hit did not need it
C29_Witness ==
    /\ lastReturn.value = "cached"
    /\ lastReturn.entry = "parsed"
    /\ pc[lastReturn.proc] = "idle"
    /\ AdmittedInWindow(lastReturn.proc) >= MaxCallsPerHour

\* the step in which an admitted call of p returns the model's result
GenerateReturn(p) ==
    /\ pc[p] = "admitted"
    /\ pc'[p] = "idle"
    /\ lastReturn'.value \in {"parsed", "default"}

MaxBatch == 3
\* batch_size (default 5), scaled down
BatchSize == 2

\* three backquote characters ("bq" is the backquote)
Fence == <<"bq", "bq", "bq">>
JsonFence == Fence \o <<"j", "s", "o", "n">>
PyFence == Fence \o <<"p", "y">>

\* str.startswith
StartsWith(s, prefix) ==
    Len(s) >= Len(prefix) /\ SubSeq(s, 1, Len(prefix)) = prefix

\* s[n:]
DropFirst(s, n) == SubSeq(s, n + 1, Len(s))

\* the keys AIEnrichmentResponse is built from
RequiredKeys ==
    {"eligibility", "requirements", "tags", "match_score", "match_tier",
     "priority_level", "competition_level", "estimated_time"}

\* the Literal types of models.py
MatchTiers == {"Excellent", "Good", "Fair", "Poor"}
PriorityLevels == {"URGENT", "HIGH", "MEDIUM", "LOW"}
CompetitionLevels == {"Low", "Medium", "High"}

\* a complete answer of the model
GoodBody ==
    [json |-> "object", keys |-> RequiredKeys, match_score |-> 92, scoreIsNumber |-> TRUE,
     match_tier |-> "Excellent", priority_level |-> "HIGH", competition_level |-> "Low",
     eligibility |-> "filled", requirements |-> "filled"]

\* the bodies the model answers with: complete, text that is no JSON, JSON
\* cut off, a key missing, a value outside its enum, a score that is no number
Bodies ==
    { GoodBody,
      [GoodBody EXCEPT !.match_score = 61, !.match_tier = "Good", !.eligibility = "empty"],
      [GoodBody EXCEPT !.json = "malformed"],
      [GoodBody EXCEPT !.json = "truncated"],
      [GoodBody EXCEPT !.keys = RequiredKeys \ {"match_tier"}],
      [GoodBody EXCEPT !.keys = RequiredKeys \ {"eligibility"}],
      [GoodBody EXCEPT !.match_tier = "Great"],
      [GoodBody EXCEPT !.priority_level = "urgent"],
      [GoodBody EXCEPT !.scoreIsNumber = FALSE] }

\* response.text: every fencing of the complete answer, and the other bodies bare
ResponseTexts ==
    { [prefix |-> pre, body |-> GoodBody, suffix |-> suf] :
          pre \in {<<>>, JsonFence, Fence, PyFence}, suf \in {<<>>, Fence} }
    \cup { [prefix |-> <<>>, body |-> b, suffix |-> <<>>] : b \in Bodies }

\* the lines of _parse_ai_response that remove the markdown fences
CleanText(text) ==
    LET p1 == IF StartsWith(text.prefix, JsonFence)
              THEN DropFirst(text.prefix, 7) ELSE text.prefix
        p2 == IF StartsWith(p1, Fence) THEN DropFirst(p1, 3) ELSE p1
        s1 == IF text.suffix = Fence THEN <<>> ELSE text.suffix
    IN [prefix |-> p2, body |-> text.body, suffix |-> s1]

\* an enrichment result: an AIEnrichmentResponse, None, or an exception
None == [kind |-> "None", match_score |-> 0, match_tier |-> "", priority_level |-> "",
         competition_level |-> "", estimated_time |-> "", eligibility |-> "",
         requirements |-> "", tags |-> ""]
RaisedResult == [None EXCEPT !.kind = "raised"]

\* the AIEnrichmentResponse of the except clause of _parse_ai_response
DefaultResponse ==
    [kind |-> "response", match_score |-> 50, match_tier |-> "Fair",
     priority_level |-> "MEDIUM", competition_level |-> "Medium",
     estimated_time |-> "2-3 hours", eligibility |-> "empty", requirements |-> "empty",
     tags |-> "empty"]

\* the try block of _parse_ai_response: json.loads and the construction of
\* the AIEnrichmentResponse, either of which can raise
ParseTry(text) ==
    LET clean == CleanText(text)
        b == clean.body
    IN IF clean.prefix # <<>> \/ clean.suffix # <<>> \/ b.json # "object"
       THEN RaisedResult
       ELSE IF ~(RequiredKeys \subseteq b.keys)
       THEN RaisedResult
       ELSE IF ~b.scoreIsNumber
       THEN RaisedResult
       ELSE IF \/ b.match_tier \notin MatchTiers
               \/ b.priority_level \notin PriorityLevels
               \/ b.competition_level \notin CompetitionLevels
       THEN RaisedResult
       ELSE [kind |-> "response", match_score |-> b.match_score,
             match_tier |-> b.match_tier, priority_level |-> b.priority_level,
             competition_level |-> b.competition_level, estimated_time |-> "given",
             eligibility |-> b.eligibility, requirements |-> b.requirements,
             tags |-> "given"]

\* mutant: _parse_ai_response without its except clause
_parse_ai_response_unguarded(text) == ParseTry(text)

\* _parse_ai_response
_parse_ai_response(text) ==
    IF ParseTry(text).kind = "raised" THEN DefaultResponse ELSE ParseTry(text)

\* the entry a cache hit returns
CachedResponse == [DefaultResponse EXCEPT !.match_score = 77, !.match_tier = "Good"]

\* how the enrich call of one scholarship goes: a cache hit, a refusal of
\* the rate limiter, an exception of generate_content, or a response text
BatchItems ==
    { [call |-> c, text |-> [prefix |-> <<>>, body |-> GoodBody, suffix |-> <<>>]] :
          c \in {"hit", "refused", "generate_raises"} }
    \cup { [call |-> "text", text |-> t] : t \in ResponseTexts }

\* enrich_scholarship: whatever is raised after the rate check is caught and
\* None returned
enrich_scholarship(item) ==
    LET r == CASE item.call = "hit" -> CachedResponse
               [] item.call = "refused" -> None
               [] item.call = "generate_raises" -> RaisedResult
               [] OTHER -> _parse_ai_response(item.text)
    IN IF r.kind = "raised" THEN None ELSE r

InitBatch ==
    /\ batchIn \in UNION {[1..n -> BatchItems] : n \in 0..MaxBatch}
    /\ batchOut = <<>>
    /\ batchPc = "running"
    /\ AllIdle /\ AppIdle

\* mutant: the loop left at the first None
EnrichNextOrStop ==
    /\ batchPc = "running"
    /\ Len(batchOut) < Len(batchIn)
    /\ LET enriched == enrich_scholarship(batchIn[Len(batchOut) + 1])
       IN IF enriched = None
          THEN /\ batchPc' = "returned"
               /\ UNCHANGED batchOut
          ELSE /\ batchOut' = Append(batchOut, enriched)
               /\ UNCHANGED batchPc
    /\ UNCHANGED <<batchIn, outsideBatch>>

\* one round of the inner loop: enriched = await self.enrich_scholarship(...);
\* results.append(enriched); after the last scholarship of a chunk that is
\* not the last chunk, asyncio.sleep(1)
EnrichNext ==
    /\ batchPc = "running"
    /\ Len(batchOut) < Len(batchIn)
    /\ LET enriched == enrich_scholarship(batchIn[Len(batchOut) + 1])
           done == Len(batchOut) + 1
       IN IF enriched.kind = "raised"
          THEN /\ batchPc' = "raised"
               /\ UNCHANGED batchOut
          ELSE /\ batchOut' = Append(batchOut, enriched)
               /\ batchPc' = IF done % BatchSize = 0 /\ done < Len(batchIn)
                             THEN "sleeping" ELSE "running"
    /\ UNCHANGED <<batchIn, outsideBatch>>

\* the pause between two chunks is over
BatchWake ==
    /\ batchPc = "sleeping"
    /\ batchPc' = "running"
    /\ UNCHANGED <<batchIn, batchOut, outsideBatch>>

\* return results
BatchReturn ==
    /\ batchPc = "running"
    /\ Len(batchOut) = Len(batchIn)
    /\ batchPc' = "returned"
    /\ UNCHANGED <<batchIn, batchOut, outsideBatch>>

NextBatch == EnrichNext \/ BatchWake \/ BatchReturn

SpecBatch == InitBatch /\ [][NextBatch]_vars

(***************************************************************************)
(* Claims about parse failures and refusals in a batch (SpecBatch).        *)
(***************************************************************************)
\* the text is the JSON of a complete answer, bare or inside a markdown fence
WellFormedText(text) ==
    /\ text.prefix \in {<<>>, Fence, JsonFence}
    /\ text.suffix \in {<<>>, Fence}
    /\ text.body.json = "object"
    /\ text.body.keys = RequiredKeys
    /\ text.body.scoreIsNumber
    /\ text.body.match_tier \in {"Excellent", "Good", "Fair", "Poor"}
    /\ text.body.priority_level \in {"URGENT", "HIGH", "MEDIUM", "LOW"}
    /\ text.body.competition_level \in {"Low", "Medium", "High"}

\* C31: for every scholarship whose response text is not the JSON of a
\* complete answer (malformed, cut off, a key missing, a value outside its
\* enum), the result is the neutral default: score 50, tier Fair, priority
\* MEDIUM, empty eligibility and requirements; and the batch never ends by
\* an exception
C31_UnparseableGivesDefault ==
    /\ batchPc # "raised"
    /\ \A i \in 1..Len(batchOut) :
          (batchIn[i].call = "text" /\ ~WellFormedText(batchIn[i].text)) =>
              /\ batchOut[i].kind = "response"
              /\ batchOut[i].match_score = 50
              /\ batchOut[i].match_tier = "Fair"
              /\ batchOut[i].priority_level = "MEDIUM"
              /\ batchOut[i].eligibility = "empty"
              /\ batchOut[i].requirements = "empty"

\* a batch returned whose first answer named a tier outside the enum and
\* whose second answer was complete
C31_Witness ==
    /\ batchPc = "returned"
    /\ Len(batchOut) >= 2
    /\ batchIn[1].call = "text" /\ batchIn[1].text.body.match_tier = "Great"
    /\ batchOut[1] = DefaultResponse
    /\ batchIn[2].call = "text" /\ batchOut[2].match_score = 92

\* C32: the results are one per scholarship handled so far, in the order of
\* the input: None for a refused call, the cached entry for a hit, the
\* answer's score for a complete answer; and a batch that has returned has
\* handled every scholarship
C32_RefusalSkipsOneItemOnly ==
    /\ Len(batchOut) <= Len(batchIn)
    /\ \A i \in 1..Len(batchOut) :
          /\ batchIn[i].call = "refused" => batchOut[i].kind = "None"
          /\ batchIn[i].call = "hit" => batchOut[i] = CachedResponse
          /\ (batchIn[i].call = "text" /\ WellFormedText(batchIn[i].text)) =>
                /\ batchOut[i].kind = "response"
                /\ batchOut[i].match_score = batchIn[i].text.body.match_score
    /\ batchPc = "returned" => Len(batchOut) = Len(batchIn)

\* a batch of three returned: the first call was refused, the later two
\* were served, one of them after the pause between two chunks
C32_Witness ==
    /\ batchPc = "returned"
    /\ Len(batchIn) = 3 /\ Len(batchOut) = 3
    /\ batchIn[1].call = "refused" /\ batchOut[1] = None
    /\ batchOut[2].kind = "response"
    /\ batchOut[3].kind = "response"

(***************************************************************************)
(* Claim about the end of one fetch (checked in SpecFetchLive).            *)
(***************************************************************************)
\* what holds of a fetch call at every moment: one log entry per request
\* made, at most max_retries of them, the attempts counted one by one
\* whatever their outcome; no exception leaves the call; a call that has
\* returned gave a response after a successful request or None
FetchBounded ==
    /\ Len(fetchLog) <= max_retries
    /\ \A i \in 1..Len(fetchLog) : fetchLog[i].attempt = i - 1
    /\ fetchPc \in {"running", "returned"}
    /\ fetchPc = "running" => fetchResult = "none" /\ attempt = Len(fetchLog)
    /\ fetchPc = "returned" =>
          \/ /\ fetchResult = "response"
             /\ fetchLog[Len(fetchLog)].outcome = "ok"
          \/ /\ fetchResult = "None"
             /\ Len(fetchLog) = max_retries
             /\ fetchLog[Len(fetchLog)].outcome # "ok"

\* C33: whatever the outcomes of the attempts (success, error status, 429,
\* request error, unexpected exception), a fetch call makes at most
\* max_retries requests, 429 responses included, never raises, and
\* eventually returns a successful response or None
C33_FetchTerminatesWithinMaxRetries ==
    []FetchBounded /\ <>(fetchPc = "returned")

\* a call that was answered 429 three times and gave up after the third
C33_Witness ==
    /\ fetchPc = "returned"
    /\ fetchResult = "None"
    /\ Len(fetchLog) = max_retries
    /\ \A i \in 1..max_retries : fetchLog[i].outcome = "429"

(***************************************************************************)
(* Claims about the persisted store and the match lists (SpecJob).         *)
(***************************************************************************)
\* the ids of the documents of the 'scholarships' collection
StoredIds == {scholarships[i].id : i \in 1..Len(scholarships)}

\* every id of every persisted match list is the id of a stored document
MatchesAreStored ==
    \A u \in Users :
        user_matches[u].exists =>
            \A i \in 1..Len(user_matches[u].scholarship_ids) :
                user_matches[u].scholarship_ids[i] \in StoredIds

\* a step in which a background run or a request ends by an exception
\* leaves every match list as it was
FailureKeepsMatches ==
    (\/ \E j \in Requests : bgOutcome[j] # "raised" /\ bgOutcome'[j] = "raised"
     \/ \E r \in Requests : reqPc[r] # "raised" /\ reqPc'[r] = "raised")
        => user_matches' = user_matches

\* C34: at every moment every id of a user's match list is the id of a
\* document of the store, the slow path writing the list only after the
\* last matched opportunity of the run was saved; and a failure while
\* saving leaves the match lists unchanged
C34_MatchListRefersToStored ==
    []MatchesAreStored /\ [][FailureKeepsMatches]_vars

\* a slow-path run saved its two matched opportunities and then the match
\* list of its user, which names them
C34_Witness ==
    \E j \in Requests :
        /\ bgOutcome[j] = "stored"
        /\ Len(bgMatched[j]) = 2
        /\ bgSaved[j] = 2
        /\ user_matches[reqUser[j]].exists
        /\ user_matches[reqUser[j]].scholarship_ids = IdsOf(bgMatched[j])
        /\ \A i \in 1..2 : bgMatched[j][i].id \in StoredIds

\* the documents a step adds to the store
AddedDocs == {scholarships'[i] : i \in (Len(scholarships) + 1)..Len(scholarships')}

\* C35: no run and no refresh adds to the store a document for an
\* opportunity the store already holds under another id (the kind of a
\* scraped opportunity stands for its name and organization)
C35_OneRecordPerOpportunity ==
    [][\A doc \in AddedDocs :
          \A i \in 1..Len(scholarships) : scholarships[i].kind # doc.kind]_vars

(***************************************************************************)
(* Claim about which opportunities deduplication collapses (SpecAgg).      *)
(***************************************************************************)
\* the lowercased name and the lowercased organization, kept apart
NameAndOrganization(opp) == <<Lower(opp.name), Lower(opp.organization)>>

\* C36: deduplication drops an opportunity only if an opportunity with the
\* same lowercased name and the same lowercased organization is kept:
\* every pair (name, organization) of the input is still in the output
C36_CollapsesEqualPairsOnly ==
    dedupPc \in {"once", "twice"} =>
        \A i \in 1..Len(opportunities) :
            \E j \in 1..Len(unique) :
                NameAndOrganization(unique[j]) = NameAndOrganization(opportunities[i])

(***************************************************************************)
(* Claims about what the enrichment cache holds and how the limiter's      *)
(* window ends (SpecRate).                                                 *)
(***************************************************************************)
\* the entry is present and holds the neutral default of _parse_ai_response
HoldsDefault(entry) == entry.exists /\ entry.value = "default"

\* C37: the neutral default produced for an unparseable response is never
\* stored in the enrichment cache, neither in the shared store nor in a
\* process's in-memory cache, and no call is served the default from it
C37_DefaultNotCached ==
    /\ \A k \in CacheKeys : ~HoldsDefault(redisCache[k])
    /\ \A p \in Procs, k \in CacheKeys : ~HoldsDefault(memory_cache[p][k])
    /\ ~(lastReturn.value = "cached" /\ lastReturn.entry = "default")

\* the counter key of the shared store, when present, has an expiry
CounterKeyExpires == redisCounter.exists => redisCounter.expireAt # NoExpiry

\* an in-memory check made after the window is over starts a new window: the
\* count restarts from zero (and is 1 if the call was admitted)
InProcessResetStep ==
    \A p \in Procs :
        (/\ rate_limiter'[p] # rate_limiter[p]
         /\ now - rate_limiter[p].window_start > RateLimitWindow)
        => /\ rate_limiter'[p].window_start = now
           /\ rate_limiter'[p].count <= 1

\* C38: once the limit is reached, calls are admitted again after one full
\* window: the counter key of the shared store always carries an expiry (also
\* when it expires between a caller's read and its increment), and the
\* in-process limiter resets its count when the window is over
C38_WindowEnds == []CounterKeyExpires /\ [][InProcessResetStep]_vars

\* the in-process count of every process is within 0..cap
InProcessCountInRange ==
    \A p \in Procs : rate_limiter[p].count \in 0..MaxCallsPerHour

\* C39: the number of calls admitted within one window never exceeds the cap
\* even when the shared store fails on some checks and those checks fall back
\* to the in-process counter (stated here for calls made one after the
\* other, so that no race of the shared counter is involved), and the
\* in-process count stays within 0..cap
C39_CapHoldsUnderFallback ==
    /\ (redisConfigured /\ ~overlapped) =>
           \A p \in Procs : AdmittedInWindow(p) <= MaxCallsPerHour
    /\ InProcessCountInRange

(***************************************************************************)
(* The application routes: delete, draft-save and submit requests of one   *)
(* user for one scholarship, served by worker processes that share the     *)
(* applications collection.  Every store call is one step; between two     *)
(* store calls of a request the calls of other requests may take place.    *)
(***************************************************************************)
\* requests in flight
NumAppRequests == 3
AppRequests == 1..NumAppRequests
\* document ids the collection can hand out
MaxApplications == 2
AppIds == 1..MaxApplications
\* request.current_step of a draft-save
Steps == {1, 2}
\* an id never used, and a deleted document
NoDocument == [status |-> "none", current_step |-> 0]
DeletedDocument == [status |-> "deleted", current_step |-> 0]

\* doc.exists
AppExists(id) == application[id].status \in {"draft", "submitted"}

\* the ids matched by the query where status == 'draft' (user and
\* scholarship are those of the requests)
DraftIds == {id \in AppIds : application[id].status = "draft"}

\* a request at rest with nothing read yet, and a request that has returned
AtPc(label, id) == [pc |-> label, application_id |-> id]

InitApp ==
    /\ application = [id \in AppIds |-> NoDocument]
    /\ appKind \in [AppRequests -> {"delete", "save", "submit"}]
    /\ appPc = [r \in AppRequests |-> AtPc("get", 0)]
    /\ appRemoved = {}
    /\ AllIdle
    /\ BatchIdle

\* delete_application: get_application_by_id and the two checks (404 when
\* the document is missing, 400 when its status is not 'draft')
DeleteGet(r, id) ==
    /\ appKind[r] = "delete"
    /\ appPc[r].pc = "get"
    /\ appPc' = [appPc EXCEPT ![r] =
                    IF ~AppExists(id) THEN AtPc("404", id)
                    ELSE IF application[id].status # "draft" THEN AtPc("400", id)
                    ELSE AtPc("delete", id)]
    /\ UNCHANGED <<application, appKind, appRemoved, outsideApp>>

\* delete_application: document(application_id).delete(), whatever the
\* document is by now; appRemoved records the status of what was removed
DeleteDoc(r) ==
    /\ appKind[r] = "delete"
    /\ appPc[r].pc = "delete"
    /\ LET id == appPc[r].application_id
       IN /\ application' = [application EXCEPT ![id] =
                                IF AppExists(id) THEN DeletedDocument ELSE @]
          /\ appRemoved' = IF AppExists(id)
                           THEN appRemoved \cup {application[id].status}
                           ELSE appRemoved
          /\ appPc' = [appPc EXCEPT ![r] = AtPc("200", id)]
    /\ UNCHANGED <<appKind, outsideApp>>

\* save_draft: get_application_draft (limit 1: any matching draft)
SaveGet(r) ==
    /\ appKind[r] = "save"
    /\ appPc[r].pc = "get"
    /\ IF DraftIds = {}
       THEN appPc' = [appPc EXCEPT ![r] = AtPc("start", 0)]
       ELSE \E id \in DraftIds : appPc' = [appPc EXCEPT ![r] = AtPc("update", id)]
    /\ UNCHANGED <<application, appKind, appRemoved, outsideApp>>

\* start_application: the query for an existing draft
SaveStart(r) ==
    /\ appKind[r] = "save"
    /\ appPc[r].pc = "start"
    /\ IF DraftIds = {}
       THEN appPc' = [appPc EXCEPT ![r] = AtPc("create", 0)]
       ELSE \E id \in DraftIds : appPc' = [appPc EXCEPT ![r] = AtPc("update", id)]
    /\ UNCHANGED <<application, appKind, appRemoved, outsideApp>>

\* start_application: document() with a new id and set(... status 'draft',
\* current_step 1)
SaveCreate(r) ==
    /\ appKind[r] = "save"
    /\ appPc[r].pc = "create"
    /\ \E id \in AppIds :
          /\ application[id] = NoDocument
          /\ \A other \in AppIds : other < id => application[other] # NoDocument
          /\ application' = [application EXCEPT ![id] =
                                [status |-> "draft", current_step |-> 1]]
          /\ appPc' = [appPc EXCEPT ![r] = AtPc("update", id)]
    /\ UNCHANGED <<appKind, appRemoved, outsideApp>>

\* save_application_draft: doc_ref.update(update_data), which raises when
\* the document does not exist (the route answers 500) and does not look at
\* the status
SaveUpdate(r, step) ==
    /\ appKind[r] = "save"
    /\ appPc[r].pc = "update"
    /\ LET id == appPc[r].application_id
       IN IF AppExists(id)
          THEN /\ application' = [application EXCEPT ![id].current_step = step]
               /\ appPc' = [appPc EXCEPT ![r] = AtPc("200", id)]
          ELSE /\ application' = application
               /\ appPc' = [appPc EXCEPT ![r] = AtPc("500", id)]
    /\ UNCHANGED <<appKind, appRemoved, outsideApp>>

\* submit_application (route): get_application_draft, 404 without a draft
SubmitGet(r) ==
    /\ appKind[r] = "submit"
    /\ appPc[r].pc = "get"
    /\ IF DraftIds = {}
       THEN appPc' = [appPc EXCEPT ![r] = AtPc("404", 0)]
       ELSE \E id \in DraftIds : appPc' = [appPc EXCEPT ![r] = AtPc("set", id)]
    /\ UNCHANGED <<application, appKind, appRemoved, outsideApp>>

\* db.submit_application: doc_ref.set(submission_data) with status
\* 'submitted'; set replaces the document, or creates it if it is gone
SubmitSet(r) ==
    /\ appKind[r] = "submit"
    /\ appPc[r].pc = "set"
    /\ LET id == appPc[r].application_id
       IN /\ application' = [application EXCEPT ![id] =
                                [status |-> "submitted", current_step |-> 0]]
          /\ appPc' = [appPc EXCEPT ![r] = AtPc("200", id)]
    /\ UNCHANGED <<appKind, appRemoved, outsideApp>>

NextApp ==
    \/ \E r \in AppRequests, id \in AppIds : DeleteGet(r, id)
    \/ \E r \in AppRequests : DeleteDoc(r)
    \/ \E r \in AppRequests : SaveGet(r)
    \/ \E r \in AppRequests : SaveStart(r)
    \/ \E r \in AppRequests : SaveCreate(r)
    \/ \E r \in AppRequests, step \in Steps : SaveUpdate(r, step)
    \/ \E r \in AppRequests : SubmitGet(r)
    \/ \E r \in AppRequests : SubmitSet(r)

SpecApp == InitApp /\ [][NextApp]_vars

\* C40: only drafts can be deleted: under any interleaving of delete,
\* draft-save and submit requests on the same application, no document whose
\* status is 'submitted' is ever removed from the store
C40_SubmittedNeverRemoved == "submitted" \notin appRemoved

=============================================================================
